---- MODULE Spec2Model ----
(***************************************************************************)
(* Staking operations of the subtensor pallet (staking/remove_stake.rs):   *)
(* remove_stake, unstake_all, unstake_all_alpha and remove_stake_limit,    *)
(* as a state machine over the balance ledger, the stake ledger with its   *)
(* aggregates, and the pending child-key records; and the neuron slot      *)
(* manager (subnets/uids.rs): append_neuron, replace_neuron, clear_neuron  *)
(* and the uid/hotkey lookups, over the per-slot arrays and the maps of    *)
(* each subnet.                                                            *)
(*                                                                         *)
(* The extrinsics are translated from staking/remove_stake.rs.  The        *)
(* helpers they call (validate_remove_stake, unstake_from_subnet,          *)
(* stake_into_subnet, add_balance_to_coldkey_account,                      *)
(* clear_small_nomination_if_required, get_total_stake_for_hotkey, ...)    *)
(* live in files of the pallet that are not part of the source set; they   *)
(* are modelled from the specification (sections 3, 4.1, 4.2 and 7).       *)
(***************************************************************************)
EXTENDS Integers, Sequences, FiniteSets, TLC

(***************************************************************************)
(* Bounds of the model.                                                    *)
(***************************************************************************)
\* Stake an entry may hold in the initial state.
InitStake == 3
\* Largest alpha_unstaked argument tried by remove_stake: one more than any
\* initial entry holds, so that an overdraw is tried.
MaxAmount == InitStake + 1
\* Last block the model advances to.
MaxBlock == 3
\* Calls are explored while the fees paid so far are below MaxFees.
MaxFees == 4
\* Largest limit price tried by remove_stake_limit.
MaxLimitPrice == 2
\* Largest value of a 64-bit amount, scaled down to the model's amounts.
U64Max == 1000
\* Largest value of the 16-bit slot counter, scaled down to the model's
\* subnets.
U16Max == 2
\* Largest stake weight of a hotkey while the slot manager is explored.
MaxWeight == 1

(***************************************************************************)
(* Accounts and subnets.                                                   *)
(***************************************************************************)
Coldkeys == {"C1", "C2"}
\* Hotkeys that have an account (an Owner entry).
Hotkeys == {"H1", "H2"}
\* "H3" is a hotkey that was never registered.
AllHotkeys == Hotkeys \cup {"H3"}
\* Owner storage map: hotkey -> owning coldkey.
Owner == [h \in Hotkeys |-> IF h = "H1" THEN "C1" ELSE "C2"]

get_root_netuid == 0
\* The subnets the network knows about, in iteration order.
get_all_subnet_netuids == <<0, 1, 2>>
Netuids == {get_all_subnet_netuids[i] : i \in 1..Len(get_all_subnet_netuids)}

StakeKeys == Hotkeys \X Coldkeys \X Netuids

(***************************************************************************)
(* Runtime parameters (storage values read by the extrinsics).             *)
(***************************************************************************)
DefaultStakingFee == 1
StakeThreshold == 3
NominatorMinRequiredStake == 2
TxRateLimit == 1

\* Alpha price of a subnet in TAO (the pricing collaborator); root is 1:1.
AlphaPrice(netuid) == IF netuid = 1 THEN 2 ELSE 1

VARIABLES
    Balance,          \* coldkey -> free balance (TAO)
    Alpha,            \* <<hotkey, coldkey, netuid>> -> stake entry (alpha)
    TotalHotkeyAlpha, \* <<hotkey, netuid>> -> aggregate stake of the pair
    TotalHotkeyStake, \* hotkey -> aggregate stake over coldkeys and subnets
    PendingChildKeys, \* <<netuid, hotkey>> -> pending child-key record
    LastTxBlock,      \* coldkey -> block of its last rate-limited transaction
    SubnetworkN,      \* netuid -> number of filled slots (u16)
    Rank, Trust, Active, Emission, Consensus, Incentive, Dividends,
    LastUpdate, PruningScores, ValidatorTrust, ValidatorPermit,
                      \* netuid -> per-slot array, position uid + 1
    Keys,             \* netuid -> uid -> hotkey (NoKey: no entry)
    Uids,             \* netuid -> hotkey -> uid (NoUid: no entry)
    BlockAtRegistration, \* netuid -> uid -> block (0: no entry)
    IsNetworkMember,  \* <<hotkey, netuid>> -> membership flag
    NeuronCertificates, \* netuid -> hotkeys that have a certificate
    Axons,            \* netuid -> hotkeys that have axon info
    StakeWeight,      \* hotkey -> stake weight, as the collaborator computes it
    PendingEmission,  \* netuid -> emission accrued and not yet drained
    PendingHotkeyEmission, \* hotkey -> emission received and not yet drained
    fees,             \* TAO taken as staking fees so far
    block,            \* current block number
    misuse,           \* the kinds of slot-manager call made so far that the
                      \* registration path does not make (see Misuse)
    last,             \* the last extrinsic call and its result
    pre               \* the ledgers as they were before that call

\* The storage of the neuron slot manager.
slot_vars ==
    <<SubnetworkN, Rank, Trust, Active, Emission, Consensus, Incentive,
      Dividends, LastUpdate, PruningScores, ValidatorTrust, ValidatorPermit,
      Keys, Uids, BlockAtRegistration, IsNetworkMember, NeuronCertificates,
      Axons>>

vars == <<Balance, Alpha, TotalHotkeyAlpha, TotalHotkeyStake, PendingChildKeys,
          LastTxBlock, slot_vars, StakeWeight, PendingEmission,
          PendingHotkeyEmission, fees, block, misuse, last, pre>>

\* The storage as one value, as the helpers read and return it.
Store ==
    [bal |-> Balance, alpha |-> Alpha, tha |-> TotalHotkeyAlpha,
     ths |-> TotalHotkeyStake, pck |-> PendingChildKeys,
     ltb |-> LastTxBlock, fees |-> fees,
     SubnetworkN |-> SubnetworkN, Rank |-> Rank, Trust |-> Trust,
     Active |-> Active, Emission |-> Emission, Consensus |-> Consensus,
     Incentive |-> Incentive, Dividends |-> Dividends,
     LastUpdate |-> LastUpdate, PruningScores |-> PruningScores,
     ValidatorTrust |-> ValidatorTrust, ValidatorPermit |-> ValidatorPermit,
     Keys |-> Keys, Uids |-> Uids, BlockAtRegistration |-> BlockAtRegistration,
     IsNetworkMember |-> IsNetworkMember,
     NeuronCertificates |-> NeuronCertificates, Axons |-> Axons,
     StakeWeight |-> StakeWeight, PendingEmission |-> PendingEmission,
     PendingHotkeyEmission |-> PendingHotkeyEmission]

(***************************************************************************)
(* Arithmetic.                                                             *)
(***************************************************************************)
\* A subtraction that is not saturating: it goes below zero.
unchecked_sub(a, b) == a - b
saturating_sub(a, b) == IF a >= b THEN a - b ELSE 0
\* An addition that wraps at 64 bits.
wrapping_add(a, b) == (a + b) % (U64Max + 1)

saturating_add(a, b) == IF a + b > U64Max THEN U64Max ELSE a + b

RECURSIVE SumOver(_, _)
SumOver(f, S) ==
    IF S = {} THEN 0
    ELSE LET x == CHOOSE y \in S : TRUE IN f[x] + SumOver(f, S \ {x})

(***************************************************************************)
(* Helpers of the pallet, modelled from the specification.                 *)
(***************************************************************************)
hotkey_account_exists(hotkey) == hotkey \in Hotkeys

get_stake_for_hotkey_and_coldkey_on_subnet(s, hotkey, coldkey, netuid) ==
    IF hotkey \in Hotkeys THEN s.alpha[<<hotkey, coldkey, netuid>>] ELSE 0

get_total_stake_for_hotkey(s, hotkey) ==
    IF hotkey \in Hotkeys THEN s.ths[hotkey] ELSE 0

coldkey_owns_hotkey(coldkey, hotkey) ==
    hotkey \in Hotkeys /\ Owner[hotkey] = coldkey

\* The coldkey has nominated the hotkey: it holds stake with it somewhere.
coldkey_has_nominated(s, coldkey, hotkey) ==
    \E n \in Netuids :
        get_stake_for_hotkey_and_coldkey_on_subnet(s, hotkey, coldkey, n) > 0

exceeds_tx_rate_limit(prev_tx_block, current_block) ==
    /\ TxRateLimit # 0
    /\ prev_tx_block # 0
    /\ saturating_sub(current_block, prev_tx_block) <= TxRateLimit

\* Section 4.2: the four preconditions of remove_stake, checked without
\* writing anything.
validate_remove_stake(s, blk, coldkey, hotkey, netuid, alpha_unstaked) ==
    IF ~hotkey_account_exists(hotkey) THEN "NotRegistered"
    ELSE IF /\ ~coldkey_owns_hotkey(coldkey, hotkey)
            /\ ~coldkey_has_nominated(s, coldkey, hotkey)
        THEN "NonAssociatedColdKey"
    ELSE IF get_stake_for_hotkey_and_coldkey_on_subnet(s, hotkey, coldkey, netuid)
                < alpha_unstaked
        THEN "NotEnoughStakeToWithdraw"
    ELSE IF exceeds_tx_rate_limit(s.ltb[coldkey], blk) THEN "TxRateLimitExceeded"
    ELSE "Ok"

swap_alpha_for_tao(netuid, alpha) == alpha * AlphaPrice(netuid)
swap_tao_for_alpha(netuid, tao) == tao \div AlphaPrice(netuid)

\* A debit that forgets the per-hotkey aggregate.
decrease_stake_entry_and_subnet_only(s, hotkey, coldkey, netuid, amount) ==
    [s EXCEPT !.alpha[<<hotkey, coldkey, netuid>>] = saturating_sub(@, amount),
              !.tha[<<hotkey, netuid>>] = saturating_sub(@, amount)]

\* Debits the entry, saturating at zero, and the two aggregates with it.
decrease_stake_for_hotkey_and_coldkey_on_subnet(s, hotkey, coldkey, netuid, amount) ==
    [s EXCEPT !.alpha[<<hotkey, coldkey, netuid>>] = saturating_sub(@, amount),
              !.tha[<<hotkey, netuid>>] = saturating_sub(@, amount),
              !.ths[hotkey] = saturating_sub(@, amount)]

increase_stake_for_hotkey_and_coldkey_on_subnet(s, hotkey, coldkey, netuid, amount) ==
    [s EXCEPT !.alpha[<<hotkey, coldkey, netuid>>] = @ + amount,
              !.tha[<<hotkey, netuid>>] = @ + amount,
              !.ths[hotkey] = @ + amount]

\* Section 4.1: debit the entry, convert the alpha to TAO, take the fee.
unstake_from_subnet(s, hotkey, coldkey, netuid, alpha, fee) ==
    LET tao == swap_alpha_for_tao(netuid, alpha)
        tao_unstaked == saturating_sub(tao, fee)
        actual_fee == tao - tao_unstaked
        s1 == decrease_stake_for_hotkey_and_coldkey_on_subnet(
                  s, hotkey, coldkey, netuid, alpha)
    IN [s |-> [s1 EXCEPT !.fees = @ + actual_fee], tao |-> tao_unstaked]

\* Section 4.1: take the fee, convert the TAO to alpha, credit the entry.
stake_into_subnet(s, hotkey, coldkey, netuid, tao, fee) ==
    LET tao_staked == saturating_sub(tao, fee)
        actual_fee == tao - tao_staked
        alpha == swap_tao_for_alpha(netuid, tao_staked)
        s1 == increase_stake_for_hotkey_and_coldkey_on_subnet(
                  s, hotkey, coldkey, netuid, alpha)
    IN [s |-> [s1 EXCEPT !.fees = @ + actual_fee], alpha |-> alpha]

add_balance_to_coldkey_account(s, coldkey, tao) ==
    [s EXCEPT !.bal[coldkey] = @ + tao]

\* Section 3 (lifecycle) and 4.2: an entry below the minimum nomination is
\* withdrawn in full and its value returned to the coldkey.
clear_small_nomination_if_required(s, hotkey, coldkey, netuid) ==
    LET stake == get_stake_for_hotkey_and_coldkey_on_subnet(s, hotkey, coldkey, netuid)
    IN IF stake < NominatorMinRequiredStake
       THEN LET u == unstake_from_subnet(s, hotkey, coldkey, netuid, stake, 0)
            IN add_balance_to_coldkey_account(u.s, coldkey, u.tao)
       ELSE s

ensure_signed(origin) == origin.signed

(***************************************************************************)
(* The extrinsics, from staking/remove_stake.rs.                           *)
(***************************************************************************)
\* Lines 66-68: PendingChildKeys::remove(netuid, hotkey) for every subnet.
remove_pending_children(s, hotkey) ==
    [s EXCEPT !.pck = [k \in DOMAIN s.pck |->
                          IF k[1] \in Netuids /\ k[2] = hotkey THEN {} ELSE s.pck[k]]]

\* Steps 3 to 6 without step 4: the unstaked TAO is never credited.
remove_stake_steps_without_credit(s, hotkey, coldkey, netuid, alpha_unstaked) ==
    LET u == unstake_from_subnet(s, hotkey, coldkey, netuid, alpha_unstaked,
                                 DefaultStakingFee)
        s5 == clear_small_nomination_if_required(u.s, hotkey, coldkey, netuid)
        s6 == IF get_total_stake_for_hotkey(s5, hotkey) < StakeThreshold
              THEN remove_pending_children(s5, hotkey)
              ELSE s5
    IN [s |-> s6, result |-> "Ok", tao |-> u.tao]

\* Steps 3 to 6 with step 6 clearing the pending children whatever the
\* total stake is.
remove_stake_steps_clearing_always(s, hotkey, coldkey, netuid, alpha_unstaked) ==
    LET u == unstake_from_subnet(s, hotkey, coldkey, netuid, alpha_unstaked,
                                 DefaultStakingFee)
        s4 == add_balance_to_coldkey_account(u.s, coldkey, u.tao)
        s5 == clear_small_nomination_if_required(s4, hotkey, coldkey, netuid)
    IN [s |-> remove_pending_children(s5, hotkey), result |-> "Ok", tao |-> u.tao]

\* Steps 3 to 6 with the dust cleanup of step 5 run on the root subnet.
remove_stake_steps_cleaning_root(s, hotkey, coldkey, netuid, alpha_unstaked) ==
    LET u == unstake_from_subnet(s, hotkey, coldkey, netuid, alpha_unstaked,
                                 DefaultStakingFee)
        s4 == add_balance_to_coldkey_account(u.s, coldkey, u.tao)
        s5 == clear_small_nomination_if_required(s4, hotkey, coldkey, get_root_netuid)
        s6 == IF get_total_stake_for_hotkey(s5, hotkey) < StakeThreshold
              THEN remove_pending_children(s5, hotkey)
              ELSE s5
    IN [s |-> s6, result |-> "Ok", tao |-> u.tao]

\* Steps 3 to 6 with the test of step 6 written <= instead of <.
remove_stake_steps_threshold_inclusive(s, hotkey, coldkey, netuid, alpha_unstaked) ==
    LET u == unstake_from_subnet(s, hotkey, coldkey, netuid, alpha_unstaked,
                                 DefaultStakingFee)
        s4 == add_balance_to_coldkey_account(u.s, coldkey, u.tao)
        s5 == clear_small_nomination_if_required(s4, hotkey, coldkey, netuid)
        s6 == IF get_total_stake_for_hotkey(s5, hotkey) <= StakeThreshold
              THEN remove_pending_children(s5, hotkey)
              ELSE s5
    IN [s |-> s6, result |-> "Ok", tao |-> u.tao]

\* Steps 3 to 6 without the dust cleanup of step 5.
remove_stake_steps_without_cleanup(s, hotkey, coldkey, netuid, alpha_unstaked) ==
    LET u == unstake_from_subnet(s, hotkey, coldkey, netuid, alpha_unstaked,
                                 DefaultStakingFee)
        s4 == add_balance_to_coldkey_account(u.s, coldkey, u.tao)
        s6 == IF get_total_stake_for_hotkey(s4, hotkey) < StakeThreshold
              THEN remove_pending_children(s4, hotkey)
              ELSE s4
    IN [s |-> s6, result |-> "Ok", tao |-> u.tao]

\* Steps 3 to 6 in the order of the specification (section 4.2): the test
\* of step 6 made before the dust cleanup of step 5.
remove_stake_steps_threshold_before_cleanup(s, hotkey, coldkey, netuid, alpha_unstaked) ==
    LET u == unstake_from_subnet(s, hotkey, coldkey, netuid, alpha_unstaked,
                                 DefaultStakingFee)
        s4 == add_balance_to_coldkey_account(u.s, coldkey, u.tao)
        s6 == IF get_total_stake_for_hotkey(s4, hotkey) < StakeThreshold
              THEN remove_pending_children(s4, hotkey)
              ELSE s4
        s5 == clear_small_nomination_if_required(s6, hotkey, coldkey, netuid)
    IN [s |-> s5, result |-> "Ok", tao |-> u.tao]

\* Lines 53-69: steps 3 to 6 of do_remove_stake.
remove_stake_steps(s, hotkey, coldkey, netuid, alpha_unstaked) ==
    LET u == unstake_from_subnet(s, hotkey, coldkey, netuid, alpha_unstaked,
                                 DefaultStakingFee)
        s4 == add_balance_to_coldkey_account(u.s, coldkey, u.tao)
        s5 == clear_small_nomination_if_required(s4, hotkey, coldkey, netuid)
        s6 == IF get_total_stake_for_hotkey(s5, hotkey) < StakeThreshold
              THEN remove_pending_children(s5, hotkey)
              ELSE s5
    IN [s |-> s6, result |-> "Ok", tao |-> u.tao]

\* do_remove_stake with steps 3 to 6 run before the validation of step 2.
do_remove_stake_validating_last(s, blk, origin, hotkey, netuid, alpha_unstaked) ==
    IF ~ensure_signed(origin) THEN [s |-> s, result |-> "BadOrigin", tao |-> 0]
    ELSE LET coldkey == origin.who
             v == validate_remove_stake(s, blk, coldkey, hotkey, netuid, alpha_unstaked)
             r == IF hotkey_account_exists(hotkey)
                  THEN remove_stake_steps(s, hotkey, coldkey, netuid, alpha_unstaked)
                  ELSE [s |-> s, result |-> "Ok", tao |-> 0]
         IN IF v # "Ok" THEN [s |-> r.s, result |-> v, tao |-> 0] ELSE r

do_remove_stake(s, blk, origin, hotkey, netuid, alpha_unstaked) ==
    IF ~ensure_signed(origin) THEN [s |-> s, result |-> "BadOrigin", tao |-> 0]
    ELSE LET coldkey == origin.who
             v == validate_remove_stake(s, blk, coldkey, hotkey, netuid, alpha_unstaked)
         IN IF v # "Ok" THEN [s |-> s, result |-> v, tao |-> 0]
            ELSE remove_stake_steps(s, hotkey, coldkey, netuid, alpha_unstaked)

\* The loop of do_unstake_all with one fee for the whole call: the fee is
\* taken on the first subnet that holds stake and on no later one.
RECURSIVE unstake_all_loop_with_fee(_, _, _, _, _)
unstake_all_loop_with_fee(s, hotkey, coldkey, i, fee) ==
    IF i > Len(get_all_subnet_netuids) THEN s
    ELSE LET netuid == get_all_subnet_netuids[i]
             alpha_unstaked ==
                 get_stake_for_hotkey_and_coldkey_on_subnet(s, hotkey, coldkey, netuid)
         IN IF alpha_unstaked > 0
            THEN LET u == unstake_from_subnet(s, hotkey, coldkey, netuid,
                                              alpha_unstaked, fee)
                     s2 == add_balance_to_coldkey_account(u.s, coldkey, u.tao)
                     s3 == clear_small_nomination_if_required(s2, hotkey, coldkey, netuid)
                 IN unstake_all_loop_with_fee(s3, hotkey, coldkey, i + 1, 0)
            ELSE unstake_all_loop_with_fee(s, hotkey, coldkey, i + 1, fee)

unstake_all_loop_single_fee(s, hotkey, coldkey, i) ==
    unstake_all_loop_with_fee(s, hotkey, coldkey, i, DefaultStakingFee)

\* Lines 122-137: the loop of do_unstake_all from position i of the netuids.
RECURSIVE unstake_all_loop(_, _, _, _)
unstake_all_loop(s, hotkey, coldkey, i) ==
    IF i > Len(get_all_subnet_netuids) THEN s
    ELSE LET netuid == get_all_subnet_netuids[i]
             alpha_unstaked ==
                 get_stake_for_hotkey_and_coldkey_on_subnet(s, hotkey, coldkey, netuid)
         IN IF alpha_unstaked > 0
            THEN LET u == unstake_from_subnet(s, hotkey, coldkey, netuid,
                                              alpha_unstaked, DefaultStakingFee)
                     s2 == add_balance_to_coldkey_account(u.s, coldkey, u.tao)
                     s3 == clear_small_nomination_if_required(s2, hotkey, coldkey, netuid)
                 IN unstake_all_loop(s3, hotkey, coldkey, i + 1)
            ELSE unstake_all_loop(s, hotkey, coldkey, i + 1)

\* do_unstake_all without the ensure! of step 2.
do_unstake_all_without_ensure(s, origin, hotkey) ==
    IF ~ensure_signed(origin) THEN [s |-> s, result |-> "BadOrigin", tao |-> 0]
    ELSE [s |-> unstake_all_loop(s, hotkey, origin.who, 1), result |-> "Ok", tao |-> 0]

do_unstake_all(s, origin, hotkey) ==
    IF ~ensure_signed(origin) THEN [s |-> s, result |-> "BadOrigin", tao |-> 0]
    ELSE IF ~hotkey_account_exists(hotkey)
        THEN [s |-> s, result |-> "HotKeyAccountNotExists", tao |-> 0]
    ELSE [s |-> unstake_all_loop(s, hotkey, origin.who, 1), result |-> "Ok", tao |-> 0]

\* The loop of do_unstake_all_alpha with the credit of do_unstake_all's loop:
\* the unstaked TAO goes to the free balance as well as into the total.
RECURSIVE unstake_all_alpha_loop_crediting(_, _, _, _)
unstake_all_alpha_loop_crediting(acc, hotkey, coldkey, i) ==
    IF i > Len(get_all_subnet_netuids) THEN acc
    ELSE LET netuid == get_all_subnet_netuids[i]
             alpha_unstaked ==
                 get_stake_for_hotkey_and_coldkey_on_subnet(acc.s, hotkey, coldkey, netuid)
         IN IF netuid # get_root_netuid /\ alpha_unstaked > 0
            THEN LET u == unstake_from_subnet(acc.s, hotkey, coldkey, netuid,
                                              alpha_unstaked, DefaultStakingFee)
                     s1 == add_balance_to_coldkey_account(u.s, coldkey, u.tao)
                     s2 == clear_small_nomination_if_required(s1, hotkey, coldkey, netuid)
                 IN unstake_all_alpha_loop_crediting(
                        [s |-> s2, total |-> saturating_add(acc.total, u.tao)], hotkey, coldkey, i + 1)
            ELSE unstake_all_alpha_loop_crediting(acc, hotkey, coldkey, i + 1)

\* Lines 190-209: the loop of do_unstake_all_alpha; acc is
\* [s, total_tao_unstaked].
RECURSIVE unstake_all_alpha_loop(_, _, _, _)
unstake_all_alpha_loop(acc, hotkey, coldkey, i) ==
    IF i > Len(get_all_subnet_netuids) THEN acc
    ELSE LET netuid == get_all_subnet_netuids[i]
             alpha_unstaked ==
                 get_stake_for_hotkey_and_coldkey_on_subnet(acc.s, hotkey, coldkey, netuid)
         IN IF netuid # get_root_netuid /\ alpha_unstaked > 0
            THEN LET u == unstake_from_subnet(acc.s, hotkey, coldkey, netuid,
                                              alpha_unstaked, DefaultStakingFee)
                     s2 == clear_small_nomination_if_required(u.s, hotkey, coldkey, netuid)
                 IN unstake_all_alpha_loop(
                        [s |-> s2, total |-> saturating_add(acc.total, u.tao)], hotkey, coldkey, i + 1)
            ELSE unstake_all_alpha_loop(acc, hotkey, coldkey, i + 1)

\* The arguments of a stake_into_subnet call, as the call log records them.
StakeIn(hotkey, coldkey, netuid, tao, fee) ==
    [hotkey |-> hotkey, coldkey |-> coldkey, netuid |-> netuid, tao |-> tao,
     fee |-> fee]

\* do_unstake_all_alpha charging the staking fee on the stake into root.
do_unstake_all_alpha_with_restake_fee(s, origin, hotkey) ==
    IF ~ensure_signed(origin) THEN [s |-> s, result |-> "BadOrigin", tao |-> 0]
    ELSE IF ~hotkey_account_exists(hotkey)
        THEN [s |-> s, result |-> "HotKeyAccountNotExists", tao |-> 0]
    ELSE LET acc == unstake_all_alpha_loop([s |-> s, total |-> 0], hotkey, origin.who, 1)
             r == stake_into_subnet(acc.s, hotkey, origin.who, get_root_netuid,
                                    acc.total, DefaultStakingFee)
         IN [s |-> r.s, result |-> "Ok", tao |-> acc.total,
             stake_ins |-> <<StakeIn(hotkey, origin.who, get_root_netuid,
                                     acc.total, DefaultStakingFee)>>]

\* Lines 169-222.  stake_ins is the log of the stake_into_subnet calls made.
do_unstake_all_alpha(s, origin, hotkey) ==
    IF ~ensure_signed(origin) THEN [s |-> s, result |-> "BadOrigin", tao |-> 0]
    ELSE IF ~hotkey_account_exists(hotkey)
        THEN [s |-> s, result |-> "HotKeyAccountNotExists", tao |-> 0]
    ELSE LET acc == unstake_all_alpha_loop([s |-> s, total |-> 0], hotkey, origin.who, 1)
             r == stake_into_subnet(acc.s, hotkey, origin.who, get_root_netuid,
                                    acc.total, 0)
         IN [s |-> r.s, result |-> "Ok", tao |-> acc.total,
             stake_ins |-> <<StakeIn(hotkey, origin.who, get_root_netuid,
                                     acc.total, 0)>>]

\* Lines 241-243: the maximum amount executable under a price limit.
get_max_amount_remove(netuid, limit_price) == 0

\* do_remove_stake_limit executing the removal instead of doing nothing:
\* steps 3 to 6 of do_remove_stake for a coldkey whose entry holds the amount.
do_remove_stake_limit_executing(s, origin, hotkey, netuid, stake_to_be_added, limit_price) ==
    IF /\ ensure_signed(origin)
       /\ hotkey_account_exists(hotkey)
       /\ get_stake_for_hotkey_and_coldkey_on_subnet(s, hotkey, origin.who, netuid)
              >= stake_to_be_added
    THEN remove_stake_steps(s, hotkey, origin.who, netuid, stake_to_be_added)
    ELSE [s |-> s, result |-> "Ok", tao |-> get_max_amount_remove(netuid, limit_price)]

\* Lines 224-238: no check is made; _max_amount is computed and dropped
\* (the result record carries it in tao).
do_remove_stake_limit(s, origin, hotkey, netuid, stake_to_be_added, limit_price) ==
    LET max_amount == get_max_amount_remove(netuid, limit_price)
    IN [s |-> s, result |-> "Ok", tao |-> max_amount]

(***************************************************************************)
(* The neuron slot manager, from subnets/uids.rs.                          *)
(***************************************************************************)
\* The subnets that have neuron slots (root has none in the model).
SlotNetuids == {1, 2}
\* The values of a u16 uid.
Uid16 == 0..U16Max
\* Keys has no entry for the uid; Uids has no entry for the hotkey.
NoKey == "no key"
NoUid == 0 - 1
\* The default AccountId, which a ValueQuery read of a missing key returns.
DefaultAccount == "default"
\* The hotkeys the maps are keyed by.
SlotHotkeys == AllHotkeys \cup {DefaultAccount}

\* An addition that wraps at the width of the counter.
wrapping_add_u16(a, b) == (a + b) % (U16Max + 1)
\* u16::saturating_add.
saturating_add_u16(a, b) == IF a + b > U16Max THEN U16Max ELSE a + b

\* Helpers of the pallet, modelled from the specification (sections 3 and
\* 4.3).  A hotkey that holds a slot has an owning coldkey: registration
\* gives a hotkey that has no account one, owned by the registering
\* coldkey, before it assigns the uid.  H3 is registered by C1.
RegisteredOwner == [h \in AllHotkeys |-> IF h \in Hotkeys THEN Owner[h] ELSE "C1"]

get_owning_coldkey_for_hotkey(hotkey) ==
    IF hotkey \in AllHotkeys THEN RegisteredOwner[hotkey] ELSE DefaultAccount

get_subnet_owner(netuid) == IF netuid = 1 THEN "C1" ELSE "C2"

\* The stake weight of a hotkey on a subnet (the first component of
\* get_stake_weights_for_hotkey_on_subnet).
get_stake_weights_for_hotkey_on_subnet(s, hotkey, netuid) ==
    IF hotkey \in AllHotkeys THEN s.StakeWeight[hotkey] ELSE 0

\* Lines 8-10.
get_subnetwork_n(s, netuid) == s.SubnetworkN[netuid]

\* set_element_at growing the array when it has no such position.
set_element_at_extending(vec, position, value) ==
    IF position + 1 \in DOMAIN vec THEN [vec EXCEPT ![position + 1] = value]
    ELSE Append(vec, value)

\* Lines 13-17: position is zero-based, sequences are one-based.
set_element_at(vec, position, value) ==
    IF position + 1 \in DOMAIN vec THEN [vec EXCEPT ![position + 1] = value]
    ELSE vec

\* set_active_for_uid leaving the flag as it is.
set_active_for_uid_skipped(s, netuid, uid, active) == s

\* Sets the active flag of the uid, if the array has that position.
set_active_for_uid(s, netuid, uid, active) ==
    [s EXCEPT !.Active[netuid] = set_element_at(@, uid, active)]

\* clear_neuron as the specification words it: rank in the place of
\* emission.
clear_neuron_resetting_rank(s, netuid, neuron_uid) ==
    [s EXCEPT !.Rank[netuid] = set_element_at(@, neuron_uid, 0),
              !.Trust[netuid] = set_element_at(@, neuron_uid, 0),
              !.Consensus[netuid] = set_element_at(@, neuron_uid, 0),
              !.Incentive[netuid] = set_element_at(@, neuron_uid, 0),
              !.Dividends[netuid] = set_element_at(@, neuron_uid, 0)]

\* clear_neuron resetting the last-update block as well.
clear_neuron_resetting_last_update(s, netuid, neuron_uid) ==
    [s EXCEPT !.Emission[netuid] = set_element_at(@, neuron_uid, 0),
              !.Trust[netuid] = set_element_at(@, neuron_uid, 0),
              !.Consensus[netuid] = set_element_at(@, neuron_uid, 0),
              !.Incentive[netuid] = set_element_at(@, neuron_uid, 0),
              !.Dividends[netuid] = set_element_at(@, neuron_uid, 0),
              !.LastUpdate[netuid] = set_element_at(@, neuron_uid, 0)]

\* Lines 20-27.
clear_neuron(s, netuid, neuron_uid) ==
    [s EXCEPT !.Emission[netuid] = set_element_at(@, neuron_uid, 0),
              !.Trust[netuid] = set_element_at(@, neuron_uid, 0),
              !.Consensus[netuid] = set_element_at(@, neuron_uid, 0),
              !.Incentive[netuid] = set_element_at(@, neuron_uid, 0),
              !.Dividends[netuid] = set_element_at(@, neuron_uid, 0)]

\* Lines 138-140 and 144-146.
is_uid_exist_on_network(s, netuid, uid) == s.Keys[netuid][uid] # NoKey
is_hotkey_registered_on_network(s, netuid, hotkey) == s.Uids[netuid][hotkey] # NoUid

\* Lines 150-156: Keys::try_get, a miss mapped to the error.
get_hotkey_for_net_and_uid(s, netuid, neuron_uid) ==
    IF s.Keys[netuid][neuron_uid] # NoKey
    THEN [result |-> "Ok", value |-> s.Keys[netuid][neuron_uid]]
    ELSE [result |-> "HotKeyNotRegisteredInSubNet", value |-> NoKey]

\* Lines 160-166: Uids::try_get, a miss mapped to the error.
get_uid_for_net_and_hotkey(s, netuid, hotkey) ==
    IF s.Uids[netuid][hotkey] # NoUid
    THEN [result |-> "Ok", value |-> s.Uids[netuid][hotkey]]
    ELSE [result |-> "HotKeyNotRegisteredInSubNet", value |-> NoUid]

\* The scan replacing the candidate on an equal stake weight as well: of
\* hotkeys that tie, the last found is taken.
RECURSIVE top_stake_scan_keeping_last(_, _, _, _)
top_stake_scan_keeping_last(s, netuid, neuron_uid, acc) ==
    IF neuron_uid >= get_subnetwork_n(s, netuid) THEN acc
    ELSE LET r == get_hotkey_for_net_and_uid(s, netuid, neuron_uid)
             stake_weight ==
                 get_stake_weights_for_hotkey_on_subnet(s, r.value, netuid)
         IN IF /\ r.result = "Ok"
               /\ get_subnet_owner(netuid) = get_owning_coldkey_for_hotkey(r.value)
               /\ stake_weight >= acc.max_stake_weight
            THEN top_stake_scan_keeping_last(s, netuid, neuron_uid + 1,
                     [top_stake_sn_owner_hotkey |-> r.value,
                      max_stake_weight |-> stake_weight])
            ELSE top_stake_scan_keeping_last(s, netuid, neuron_uid + 1, acc)

\* The scan taking the first hotkey of the subnet owner it finds, whatever
\* the stake weights.
RECURSIVE top_stake_scan_first_owner(_, _, _, _)
top_stake_scan_first_owner(s, netuid, neuron_uid, acc) ==
    IF neuron_uid >= get_subnetwork_n(s, netuid) THEN acc
    ELSE LET r == get_hotkey_for_net_and_uid(s, netuid, neuron_uid)
             stake_weight ==
                 get_stake_weights_for_hotkey_on_subnet(s, r.value, netuid)
         IN IF /\ r.result = "Ok"
               /\ get_subnet_owner(netuid) = get_owning_coldkey_for_hotkey(r.value)
               /\ acc.top_stake_sn_owner_hotkey = NoKey
            THEN top_stake_scan_first_owner(s, netuid, neuron_uid + 1,
                     [top_stake_sn_owner_hotkey |-> r.value,
                      max_stake_weight |-> stake_weight])
            ELSE top_stake_scan_first_owner(s, netuid, neuron_uid + 1, acc)

\* Lines 47-62: the scan for the subnet owner's hotkey of highest stake
\* weight, from neuron_uid on; acc is [top_stake_sn_owner_hotkey,
\* max_stake_weight], NoKey standing for None.
RECURSIVE top_stake_scan(_, _, _, _)
top_stake_scan(s, netuid, neuron_uid, acc) ==
    IF neuron_uid >= get_subnetwork_n(s, netuid) THEN acc
    ELSE LET r == get_hotkey_for_net_and_uid(s, netuid, neuron_uid)
             stake_weight ==
                 get_stake_weights_for_hotkey_on_subnet(s, r.value, netuid)
         IN IF /\ r.result = "Ok"
               /\ get_subnet_owner(netuid) = get_owning_coldkey_for_hotkey(r.value)
               /\ stake_weight > acc.max_stake_weight
            THEN top_stake_scan(s, netuid, neuron_uid + 1,
                     [top_stake_sn_owner_hotkey |-> r.value,
                      max_stake_weight |-> stake_weight])
            ELSE top_stake_scan(s, netuid, neuron_uid + 1, acc)

\* replace_neuron protecting every hotkey of the subnet owner, whatever its
\* stake weight.
replace_neuron_protecting_every_owner_hotkey(s, netuid, uid_to_replace, new_hotkey, block_number) ==
    LET old_hotkey ==
            IF s.Keys[netuid][uid_to_replace] = NoKey THEN DefaultAccount
            ELSE s.Keys[netuid][uid_to_replace]
        s2 == [s EXCEPT !.Uids[netuid][old_hotkey] = NoUid,
                        !.IsNetworkMember[<<old_hotkey, netuid>>] = FALSE,
                        !.Keys[netuid][uid_to_replace] = NoKey]
        s3a == set_active_for_uid(s2, netuid, uid_to_replace, TRUE)
        s3b == [s3a EXCEPT !.Keys[netuid][uid_to_replace] = new_hotkey]
        s3c == [s3b EXCEPT !.Uids[netuid][new_hotkey] = uid_to_replace]
        s3d == [s3c EXCEPT !.BlockAtRegistration[netuid][uid_to_replace] = block_number]
        s3 == [s3d EXCEPT !.IsNetworkMember[<<new_hotkey, netuid>>] = TRUE]
        s4 == [s3 EXCEPT !.NeuronCertificates[netuid] = @ \ {old_hotkey}]
        s5 == clear_neuron(s4, netuid, uid_to_replace)
        s5a == [s5 EXCEPT !.Axons[netuid] = @ \ {old_hotkey}]
    IN IF get_owning_coldkey_for_hotkey(old_hotkey) = get_subnet_owner(netuid)
       THEN s
       ELSE s5a

\* replace_neuron resetting pruning score and validator permit of the uid
\* as well.
replace_neuron_resetting_permit(s, netuid, uid_to_replace, new_hotkey, block_number) ==
    LET old_hotkey ==
            IF s.Keys[netuid][uid_to_replace] = NoKey THEN DefaultAccount
            ELSE s.Keys[netuid][uid_to_replace]
        top == top_stake_scan(s, netuid, 0,
                   [top_stake_sn_owner_hotkey |-> NoKey, max_stake_weight |-> 0 - 1])
        s2 == [s EXCEPT !.Uids[netuid][old_hotkey] = NoUid,
                        !.IsNetworkMember[<<old_hotkey, netuid>>] = FALSE,
                        !.Keys[netuid][uid_to_replace] = NoKey]
        s3a == set_active_for_uid(s2, netuid, uid_to_replace, TRUE)
        s3b == [s3a EXCEPT !.Keys[netuid][uid_to_replace] = new_hotkey]
        s3c == [s3b EXCEPT !.Uids[netuid][new_hotkey] = uid_to_replace]
        s3d == [s3c EXCEPT !.BlockAtRegistration[netuid][uid_to_replace] = block_number]
        s3 == [s3d EXCEPT !.IsNetworkMember[<<new_hotkey, netuid>>] = TRUE]
        s4 == [s3 EXCEPT !.NeuronCertificates[netuid] = @ \ {old_hotkey}]
        s5 == clear_neuron(s4, netuid, uid_to_replace)
        s5a == [s5 EXCEPT !.Axons[netuid] = @ \ {old_hotkey},
                          !.PruningScores[netuid] = set_element_at(@, uid_to_replace, 0),
                          !.ValidatorPermit[netuid] =
                              set_element_at(@, uid_to_replace, FALSE)]
    IN IF /\ top.top_stake_sn_owner_hotkey # NoKey
          /\ top.top_stake_sn_owner_hotkey = old_hotkey
       THEN s
       ELSE s5a

\* Lines 178-191: the networks whose membership entry of the hotkey is
\* true.  The vector is in the iteration order of the storage map; it is
\* modelled by its elements.
get_registered_networks_for_hotkey(s, hotkey) ==
    {network \in SlotNetuids : s.IsNetworkMember[<<hotkey, network>>]}

\* Lines 195-206: true at the first membership entry of the hotkey that is
\* true.
is_hotkey_registered_on_any_network(s, hotkey) ==
    \E network \in SlotNetuids : s.IsNetworkMember[<<hotkey, network>>]

\* replace_neuron without the IsNetworkMember::remove of step 2: the evicted
\* hotkey stays a member of the subnet.
replace_neuron_keeping_membership(s, netuid, uid_to_replace, new_hotkey, block_number) ==
    LET old_hotkey ==
            IF s.Keys[netuid][uid_to_replace] = NoKey THEN DefaultAccount
            ELSE s.Keys[netuid][uid_to_replace]
        top == top_stake_scan(s, netuid, 0,
                   [top_stake_sn_owner_hotkey |-> NoKey, max_stake_weight |-> 0 - 1])
        s2 == [s EXCEPT !.Uids[netuid][old_hotkey] = NoUid,
                        !.Keys[netuid][uid_to_replace] = NoKey]
        s3a == set_active_for_uid(s2, netuid, uid_to_replace, TRUE)
        s3b == [s3a EXCEPT !.Keys[netuid][uid_to_replace] = new_hotkey]
        s3c == [s3b EXCEPT !.Uids[netuid][new_hotkey] = uid_to_replace]
        s3d == [s3c EXCEPT !.BlockAtRegistration[netuid][uid_to_replace] = block_number]
        s3 == [s3d EXCEPT !.IsNetworkMember[<<new_hotkey, netuid>>] = TRUE]
        s4 == [s3 EXCEPT !.NeuronCertificates[netuid] = @ \ {old_hotkey}]
        s5 == clear_neuron(s4, netuid, uid_to_replace)
        s5a == [s5 EXCEPT !.Axons[netuid] = @ \ {old_hotkey}]
    IN IF /\ top.top_stake_sn_owner_hotkey # NoKey
          /\ top.top_stake_sn_owner_hotkey = old_hotkey
       THEN s
       ELSE s5a

\* replace_neuron without the Keys::insert of step 3: the uid is left without
\* a hotkey.
replace_neuron_without_key_insert(s, netuid, uid_to_replace, new_hotkey, block_number) ==
    LET old_hotkey ==
            IF s.Keys[netuid][uid_to_replace] = NoKey THEN DefaultAccount
            ELSE s.Keys[netuid][uid_to_replace]
        top == top_stake_scan(s, netuid, 0,
                   [top_stake_sn_owner_hotkey |-> NoKey, max_stake_weight |-> 0 - 1])
        \* 2. Remove previous set memberships.
        s2 == [s EXCEPT !.Uids[netuid][old_hotkey] = NoUid,
                        !.IsNetworkMember[<<old_hotkey, netuid>>] = FALSE,
                        !.Keys[netuid][uid_to_replace] = NoKey]
        \* 3. Create new set memberships.
        s3a == set_active_for_uid(s2, netuid, uid_to_replace, TRUE)
        s3b == s3a
        s3c == [s3b EXCEPT !.Uids[netuid][new_hotkey] = uid_to_replace]
        s3d == [s3c EXCEPT !.BlockAtRegistration[netuid][uid_to_replace] = block_number]
        s3 == [s3d EXCEPT !.IsNetworkMember[<<new_hotkey, netuid>>] = TRUE]
        \* 4. Clear neuron certificates.
        s4 == [s3 EXCEPT !.NeuronCertificates[netuid] = @ \ {old_hotkey}]
        \* 5. Reset new neuron's values.
        s5 == clear_neuron(s4, netuid, uid_to_replace)
        \* 5a. Reset axon info.
        s5a == [s5 EXCEPT !.Axons[netuid] = @ \ {old_hotkey}]
    IN IF /\ top.top_stake_sn_owner_hotkey # NoKey
          /\ top.top_stake_sn_owner_hotkey = old_hotkey
       THEN s
       ELSE s5a

\* replace_neuron without the Uids::remove of step 2: the evicted hotkey keeps
\* its uid entry.
replace_neuron_without_uids_remove(s, netuid, uid_to_replace, new_hotkey, block_number) ==
    LET old_hotkey ==
            IF s.Keys[netuid][uid_to_replace] = NoKey THEN DefaultAccount
            ELSE s.Keys[netuid][uid_to_replace]
        top == top_stake_scan(s, netuid, 0,
                   [top_stake_sn_owner_hotkey |-> NoKey, max_stake_weight |-> 0 - 1])
        \* 2. Remove previous set memberships.
        s2 == [s EXCEPT !.IsNetworkMember[<<old_hotkey, netuid>>] = FALSE,
                        !.Keys[netuid][uid_to_replace] = NoKey]
        \* 3. Create new set memberships.
        s3a == set_active_for_uid(s2, netuid, uid_to_replace, TRUE)
        s3b == [s3a EXCEPT !.Keys[netuid][uid_to_replace] = new_hotkey]
        s3c == [s3b EXCEPT !.Uids[netuid][new_hotkey] = uid_to_replace]
        s3d == [s3c EXCEPT !.BlockAtRegistration[netuid][uid_to_replace] = block_number]
        s3 == [s3d EXCEPT !.IsNetworkMember[<<new_hotkey, netuid>>] = TRUE]
        \* 4. Clear neuron certificates.
        s4 == [s3 EXCEPT !.NeuronCertificates[netuid] = @ \ {old_hotkey}]
        \* 5. Reset new neuron's values.
        s5 == clear_neuron(s4, netuid, uid_to_replace)
        \* 5a. Reset axon info.
        s5a == [s5 EXCEPT !.Axons[netuid] = @ \ {old_hotkey}]
    IN IF /\ top.top_stake_sn_owner_hotkey # NoKey
          /\ top.top_stake_sn_owner_hotkey = old_hotkey
       THEN s
       ELSE s5a

\* Lines 30-100.
replace_neuron(s, netuid, uid_to_replace, new_hotkey, block_number) ==
    LET old_hotkey ==
            IF s.Keys[netuid][uid_to_replace] = NoKey THEN DefaultAccount
            ELSE s.Keys[netuid][uid_to_replace]
        top == top_stake_scan(s, netuid, 0,
                   [top_stake_sn_owner_hotkey |-> NoKey, max_stake_weight |-> 0 - 1])
        \* 2. Remove previous set memberships.
        s2 == [s EXCEPT !.Uids[netuid][old_hotkey] = NoUid,
                        !.IsNetworkMember[<<old_hotkey, netuid>>] = FALSE,
                        !.Keys[netuid][uid_to_replace] = NoKey]
        \* 3. Create new set memberships.
        s3a == set_active_for_uid(s2, netuid, uid_to_replace, TRUE)
        s3b == [s3a EXCEPT !.Keys[netuid][uid_to_replace] = new_hotkey]
        s3c == [s3b EXCEPT !.Uids[netuid][new_hotkey] = uid_to_replace]
        s3d == [s3c EXCEPT !.BlockAtRegistration[netuid][uid_to_replace] = block_number]
        s3 == [s3d EXCEPT !.IsNetworkMember[<<new_hotkey, netuid>>] = TRUE]
        \* 4. Clear neuron certificates.
        s4 == [s3 EXCEPT !.NeuronCertificates[netuid] = @ \ {old_hotkey}]
        \* 5. Reset new neuron's values.
        s5 == clear_neuron(s4, netuid, uid_to_replace)
        \* 5a. Reset axon info.
        s5a == [s5 EXCEPT !.Axons[netuid] = @ \ {old_hotkey}]
    IN IF /\ top.top_stake_sn_owner_hotkey # NoKey
          /\ top.top_stake_sn_owner_hotkey = old_hotkey
       THEN s
       ELSE s5a

\* append_neuron pushing 0 as last-update block, as for the other metrics.
append_neuron_last_update_zero(s, netuid, new_hotkey, block_number) ==
    LET next_uid == get_subnetwork_n(s, netuid)
    IN [s EXCEPT !.SubnetworkN[netuid] = saturating_add_u16(next_uid, 1),
                 !.Rank[netuid] = Append(@, 0),
                 !.Trust[netuid] = Append(@, 0),
                 !.Active[netuid] = Append(@, TRUE),
                 !.Emission[netuid] = Append(@, 0),
                 !.Consensus[netuid] = Append(@, 0),
                 !.Incentive[netuid] = Append(@, 0),
                 !.Dividends[netuid] = Append(@, 0),
                 !.LastUpdate[netuid] = Append(@, 0),
                 !.PruningScores[netuid] = Append(@, 0),
                 !.ValidatorTrust[netuid] = Append(@, 0),
                 !.ValidatorPermit[netuid] = Append(@, FALSE),
                 !.Keys[netuid][next_uid] = new_hotkey,
                 !.Uids[netuid][new_hotkey] = next_uid,
                 !.BlockAtRegistration[netuid][next_uid] = block_number,
                 !.IsNetworkMember[<<new_hotkey, netuid>>] = TRUE]

\* Lines 103-134.
append_neuron(s, netuid, new_hotkey, block_number) ==
    LET next_uid == get_subnetwork_n(s, netuid)
    IN [s EXCEPT !.SubnetworkN[netuid] = saturating_add_u16(next_uid, 1),
                 !.Rank[netuid] = Append(@, 0),
                 !.Trust[netuid] = Append(@, 0),
                 !.Active[netuid] = Append(@, TRUE),
                 !.Emission[netuid] = Append(@, 0),
                 !.Consensus[netuid] = Append(@, 0),
                 !.Incentive[netuid] = Append(@, 0),
                 !.Dividends[netuid] = Append(@, 0),
                 !.LastUpdate[netuid] = Append(@, block_number),
                 !.PruningScores[netuid] = Append(@, 0),
                 !.ValidatorTrust[netuid] = Append(@, 0),
                 !.ValidatorPermit[netuid] = Append(@, FALSE),
                 !.Keys[netuid][next_uid] = new_hotkey,
                 !.Uids[netuid][new_hotkey] = next_uid,
                 !.BlockAtRegistration[netuid][next_uid] = block_number,
                 !.IsNetworkMember[<<new_hotkey, netuid>>] = TRUE]

(***************************************************************************)
(* The EVM adapter, from runtime/src/precompiles/mod.rs and                *)
(* balance_transfer.rs: the conversion of the EVM amount, the transfer     *)
(* the adapter dispatches, and the mapping of a dispatch result to a       *)
(* precompile result.                                                      *)
(***************************************************************************)
\* EVM units per native unit (the decimals factor of the BalanceConverter).
EvmToSubstrateDecimals == 2
\* Largest value of a 256-bit amount, scaled down: its converted value is
\* above the native range.
U256Max == EvmToSubstrateDecimals * (U64Max + 2)
\* Option::None of a converted balance.
NoBalance == 0 - 1

\* A converter that hands back the converted value also when it is
\* outside the native range.
into_substrate_balance_unchecked(value) == value \div EvmToSubstrateDecimals

\* BalanceConverter::into_substrate_balance, modelled from the
\* specification (section 6): the EVM amount in native units, None when
\* that is outside the native range.
into_substrate_balance(value) ==
    IF value \div EvmToSubstrateDecimals <= U64Max
    THEN value \div EvmToSubstrateDecimals
    ELSE NoBalance

\* UniqueSaturatedInto<u64> for U256.
unique_saturated_into(value) == IF value > U64Max THEN U64Max ELSE value

\* mod.rs lines 133-148: the slice from..to of the data, if it has it.
get_slice(data, from, to) ==
    IF to <= data.len THEN "Ok" ELSE "InvalidRange"

\* A precompile result: failed is PrecompileFailure::Error, exit is the
\* exit status, message the text of ExitError::Other, transfers the
\* Balances transfers dispatched, in order.
PrecompileResult(failed, exit, message, transfers) ==
    [failed |-> failed, exit |-> exit, message |-> message, transfers |-> transfers]

\* The precompile without the check of the destination bytes, failing
\* with OutOfFund where the transfer cannot be built.
BalanceTransferPrecompile_execute_unchecked_destination(txdata, amount, transfer_ok) ==
    LET amount_sub == into_substrate_balance(amount)
        transfer == [value |-> unique_saturated_into(amount_sub),
                     source |-> "CONTRACT_ADDRESS_SS58",
                     dest |-> "txdata[4..36]"]
    IN IF get_slice(txdata, 0, 4) # "Ok"
       THEN PrecompileResult(TRUE, "InvalidRange", <<>>, <<>>)
       ELSE IF txdata.method # "transfer(bytes32)"
       THEN PrecompileResult(FALSE, "Returned", <<>>, <<>>)
       ELSE IF amount_sub = NoBalance
       THEN PrecompileResult(TRUE, "OutOfFund", <<>>, <<>>)
       ELSE IF amount_sub = 0
       THEN PrecompileResult(FALSE, "Returned", <<>>, <<>>)
       ELSE IF transfer_ok /\ get_slice(txdata, 4, 36) = "Ok"
       THEN PrecompileResult(FALSE, "Returned", <<>>, <<transfer>>)
       ELSE PrecompileResult(TRUE, "OutOfFund", <<>>, <<transfer>>)

\* balance_transfer.rs lines 27-76.  txdata is [len, method]; transfer_ok is
\* the outcome of the dispatched transfer, whose origin is the account of
\* CONTRACT_ADDRESS_SS58 and whose destination is bytes 4..36 of the input.
BalanceTransferPrecompile_execute(txdata, amount, transfer_ok) ==
    LET amount_sub == into_substrate_balance(amount)
        transfer == [value |-> unique_saturated_into(amount_sub),
                     source |-> "CONTRACT_ADDRESS_SS58",
                     dest |-> "txdata[4..36]"]
    IN IF get_slice(txdata, 0, 4) # "Ok"
       THEN PrecompileResult(TRUE, "InvalidRange", <<>>, <<>>)
       ELSE IF txdata.method # "transfer(bytes32)"
       THEN PrecompileResult(FALSE, "Returned", <<>>, <<>>)
       ELSE IF amount_sub = NoBalance
       THEN PrecompileResult(TRUE, "OutOfFund", <<>>, <<>>)
       ELSE IF amount_sub = 0
       THEN PrecompileResult(FALSE, "Returned", <<>>, <<>>)
       ELSE IF get_slice(txdata, 4, 36) # "Ok"
       THEN PrecompileResult(TRUE, "InvalidRange", <<>>, <<>>)
       ELSE IF transfer_ok
       THEN PrecompileResult(FALSE, "Returned", <<>>, <<transfer>>)
       ELSE PrecompileResult(TRUE, "OutOfFund", <<>>, <<transfer>>)

\* mod.rs lines 151-192.  address_ok: the contract address parses.
transfer_back_to_caller(address_ok, amount, transfer_ok) ==
    LET amount_sub == into_substrate_balance(amount)
        transfer == [value |-> unique_saturated_into(amount_sub)]
    IN IF ~address_ok
       THEN PrecompileResult(TRUE, "Other", <<"Invalid SS58 address">>, <<>>)
       ELSE IF amount_sub = NoBalance
       THEN PrecompileResult(TRUE, "OutOfFund", <<>>, <<>>)
       ELSE IF ~transfer_ok
       THEN PrecompileResult(TRUE, "Other", <<"Transfer back to caller failed">>,
                             <<transfer>>)
       ELSE PrecompileResult(FALSE, "Returned", <<>>, <<transfer>>)

\* RuntimeCall::dispatch of a staking call: the entry point the call names.
dispatch_call(s, blk, origin, call) ==
    IF call.op = "remove_stake"
    THEN do_remove_stake(s, blk, origin, call.hotkey, call.netuid, call.amount)
    ELSE do_unstake_all(s, origin, call.hotkey)

\* <&'static str>::from(DispatchError): the name of a pallet error, the
\* text of a system error.
dispatch_error_text(e) == IF e = "BadOrigin" THEN "Bad origin" ELSE e

\* A dispatch that transfers the value back only after the staking call
\* has succeeded.
dispatch_transferring_after_call(s, blk, caller, call, amount, address_ok, transfer_ok) ==
    LET back == IF amount # 0
                THEN transfer_back_to_caller(address_ok, amount, transfer_ok)
                ELSE PrecompileResult(FALSE, "Returned", <<>>, <<>>)
        r == dispatch_call(s, blk, [signed |-> TRUE, who |-> caller], call)
    IN IF r.result # "Ok"
       THEN [s |-> r.s, result |-> r.result, tao |-> r.tao,
             evm |-> PrecompileResult(TRUE, "Other",
                                      <<"Subtensor call failed">>, <<>>)]
       ELSE [s |-> r.s, result |-> r.result, tao |-> r.tao, evm |-> back]

\* mod.rs lines 194-226.  The origin is the account of the EVM caller.
dispatch(s, blk, caller, call, amount, address_ok, transfer_ok) ==
    LET back == IF amount # 0
                THEN transfer_back_to_caller(address_ok, amount, transfer_ok)
                ELSE PrecompileResult(FALSE, "Returned", <<>>, <<>>)
        r == dispatch_call(s, blk, [signed |-> TRUE, who |-> caller], call)
    IN IF back.failed
       THEN [s |-> s, result |-> "none", tao |-> 0, evm |-> back]
       ELSE [s |-> r.s, result |-> r.result, tao |-> r.tao,
             evm |-> IF r.result = "Ok"
                     THEN PrecompileResult(FALSE, "Returned", <<>>, back.transfers)
                     ELSE PrecompileResult(TRUE, "Other",
                              <<"Subtensor call failed">>, back.transfers)]

\* The gas a call through try_dispatch_runtime_call runs with: no limit, a
\* limit below the weight of the call, a limit that record_external_cost
\* or record_cost refuses, or enough.
GasCases ==
    {"no limit", "below weight", "external cost refused", "cost refused", "enough"}

\* mod.rs lines 239-303.
try_dispatch_runtime_call(s, blk, call, origin, gas) ==
    LET r == dispatch_call(s, blk, origin, call)
    IN IF gas \in {"below weight", "external cost refused"}
       THEN [s |-> s, result |-> "none", tao |-> 0,
             evm |-> PrecompileResult(TRUE, "OutOfGas", <<>>, <<>>)]
       ELSE [s |-> r.s, result |-> r.result, tao |-> r.tao,
             evm |-> IF r.result = "Ok"
                     THEN IF gas = "cost refused"
                          THEN PrecompileResult(TRUE, "OutOfGas", <<>>, <<>>)
                          ELSE PrecompileResult(FALSE, "Returned", <<>>, <<>>)
                     ELSE PrecompileResult(TRUE, "Other",
                              <<"dispatch execution failed: ",
                                dispatch_error_text(r.result)>>, <<>>)]

(***************************************************************************)
(* The precompile sets: Precompiles (precompiles/src/lib.rs) and           *)
(* FrontierPrecompiles (runtime/src/precompiles/mod.rs).  An H160 address  *)
(* is its low 64 bits and the 96 bits above them.                          *)
(***************************************************************************)
\* lib.rs lines 212-214, mod.rs lines 117-119: H160::from_low_u64_be.
hash(a) == [high |-> 0, low |-> a]

\* The precompiles that have an INDEX, and the PrecompileEnum flags.
IndexedPrecompiles ==
    {"Ed25519Verify", "BalanceTransfer", "Staking", "Subnet", "Metagraph",
     "Neuron", "StakingV2"}
PrecompileEnum == {"BalanceTransfer", "Staking", "Subnet", "Metagraph", "Neuron"}

\* The INDEX constants (lib.rs lines 99-105, mod.rs lines 68-73) are
\* declared outside the two files, but BALANCE_TRANSFER_INDEX
\* (balance_transfer.rs line 14): distinct addresses above the standard ones.
DistinctIndexes ==
    [p \in IndexedPrecompiles |->
        CASE p = "Ed25519Verify" -> 1026
          [] p = "BalanceTransfer" -> 2048
          [] p = "Staking" -> 2049
          [] p = "Metagraph" -> 2050
          [] p = "Subnet" -> 2051
          [] p = "Neuron" -> 2052
          [] p = "StakingV2" -> 2053]
\* The assignments of indices the sets are checked with: the one above,
\* and one whose order differs from the order of the arms.
PrecompileIndexes ==
    {DistinctIndexes,
     [DistinctIndexes EXCEPT !["StakingV2"] = 2049, !["Staking"] = 2053,
                             !["Neuron"] = 2047]}

\* The result of PrecompileSet::execute: None, or Some of the result of the
\* precompile that ran (ran is its name), or Some of an error without a
\* precompile having run (ran is "none").
ExecuteNone == [some |-> FALSE, ran |-> "none",
                result |-> PrecompileResult(FALSE, "none", <<>>, <<>>)]
ExecuteSome(ran, result) == [some |-> TRUE, ran |-> ran, result |-> result]

\* The arms of a match on the code address, tried in order: the first arm
\* whose address is the code address, 0 if there is none.
FirstArm(arms, address) ==
    IF \E i \in DOMAIN arms : arms[i].address = address
    THEN CHOOSE i \in DOMAIN arms :
             /\ arms[i].address = address
             /\ \A j \in DOMAIN arms : arms[j].address = address => i <= j
    ELSE 0

\* An arm of the match: the address, the precompile it executes, the text
\* of its disabled error, and the flag that guards it ("none": unguarded).
Arm(address, precompile, flag, disabled) ==
    [address |-> address, precompile |-> precompile, flag |-> flag,
     disabled |-> disabled]

\* The arms of the standard precompiles, lib.rs lines 131-138 and mod.rs
\* lines 84-91 (the Ed25519Verify arm follows them in both).
StandardArms ==
    <<Arm(hash(1), "ECRecover", "none", ""),
      Arm(hash(2), "Sha256", "none", ""),
      Arm(hash(3), "Ripemd160", "none", ""),
      Arm(hash(4), "Identity", "none", ""),
      Arm(hash(5), "Modexp", "none", ""),
      Arm(hash(1024), "Sha3FIPS256", "none", ""),
      Arm(hash(1025), "ECRecoverPublicKey", "none", "")>>

\* used_addresses without the second staking precompile.
Precompiles_used_addresses_without_v2(index) ==
    <<hash(1), hash(2), hash(3), hash(4), hash(5), hash(1024), hash(1025),
      hash(index["Ed25519Verify"]), hash(index["BalanceTransfer"]),
      hash(index["Staking"]), hash(index["Subnet"]), hash(index["Metagraph"]),
      hash(index["Neuron"])>>

\* lib.rs lines 90-107: Precompiles::used_addresses.
Precompiles_used_addresses(index) ==
    <<hash(1), hash(2), hash(3), hash(4), hash(5), hash(1024), hash(1025),
      hash(index["Ed25519Verify"]), hash(index["BalanceTransfer"]),
      hash(index["Staking"]), hash(index["Subnet"]), hash(index["Metagraph"]),
      hash(index["Neuron"]), hash(index["StakingV2"])>>

\* lib.rs lines 129-200: the arms of Precompiles::execute.
Precompiles_arms(index) ==
    StandardArms \o
    <<Arm(hash(index["Ed25519Verify"]), "Ed25519Verify", "none", ""),
      Arm(hash(index["BalanceTransfer"]), "BalanceTransfer", "BalanceTransfer",
          "Precompile Balance Transfer is disabled"),
      Arm(hash(index["Staking"]), "Staking", "Staking",
          "Precompile Staking is disabled"),
      Arm(hash(index["StakingV2"]), "StakingV2", "Staking",
          "Precompile Staking is disabled"),
      Arm(hash(index["Subnet"]), "Subnet", "Subnet",
          "Precompile Subnet is disabled"),
      Arm(hash(index["Metagraph"]), "Metagraph", "Metagraph",
          "Precompile Metagrah is disabled"),
      Arm(hash(index["Neuron"]), "Neuron", "Neuron",
          "Precompile Neuron is disabled")>>

\* An arm that executes its precompile whatever the flag.
ArmResult_ignoring_flag(arm, enabled, inner) ==
    ExecuteSome(arm.precompile, inner)

\* The result of an arm: the precompile is executed if the arm is
\* unguarded or its flag is on in PrecompileEnable (enabled is the set of
\* flags that are on; inner is what the precompile returns).
ArmResult(arm, enabled, inner) ==
    IF arm.flag = "none" \/ arm.flag \in enabled
    THEN ExecuteSome(arm.precompile, inner)
    ELSE ExecuteSome("none",
                     PrecompileResult(TRUE, "Other", <<arm.disabled>>, <<>>))

\* lib.rs lines 128-202: Precompiles::execute.
Precompiles_execute(index, address, enabled, inner) ==
    LET arms == Precompiles_arms(index)
        i == FirstArm(arms, address)
    IN IF i = 0 THEN ExecuteNone ELSE ArmResult(arms[i], enabled, inner)

\* lib.rs lines 204-209: Precompiles::is_precompile.
Precompiles_is_precompile(index, address) ==
    \E i \in DOMAIN Precompiles_used_addresses(index) :
        Precompiles_used_addresses(index)[i] = address

\* mod.rs lines 60-76: FrontierPrecompiles::used_addresses.
FrontierPrecompiles_used_addresses(index) ==
    <<hash(1), hash(2), hash(3), hash(4), hash(5), hash(1024), hash(1025),
      hash(index["Ed25519Verify"]), hash(index["BalanceTransfer"]),
      hash(index["Staking"]), hash(index["Subnet"]), hash(index["Metagraph"]),
      hash(index["Neuron"])>>

\* mod.rs lines 82-106: the arms of FrontierPrecompiles::execute, none of
\* them guarded.
FrontierPrecompiles_arms(index) ==
    StandardArms \o
    <<Arm(hash(index["Ed25519Verify"]), "Ed25519Verify", "none", ""),
      Arm(hash(index["BalanceTransfer"]), "BalanceTransfer", "none", ""),
      Arm(hash(index["Staking"]), "Staking", "none", ""),
      Arm(hash(index["Subnet"]), "Subnet", "none", ""),
      Arm(hash(index["Metagraph"]), "Metagraph", "none", ""),
      Arm(hash(index["Neuron"]), "Neuron", "none", "")>>

\* mod.rs lines 81-107: FrontierPrecompiles::execute.
FrontierPrecompiles_execute(index, address, inner) ==
    LET arms == FrontierPrecompiles_arms(index)
        i == FirstArm(arms, address)
    IN IF i = 0 THEN ExecuteNone ELSE ArmResult(arms[i], {}, inner)

\* mod.rs lines 109-114: FrontierPrecompiles::is_precompile.
FrontierPrecompiles_is_precompile(index, address) ==
    \E i \in DOMAIN FrontierPrecompiles_used_addresses(index) :
        FrontierPrecompiles_used_addresses(index)[i] = address

(***************************************************************************)
(* The emission engine (sections 2 and 3 of the specification; the         *)
(* arithmetic of the split is that of tests/coinbase.rs).                  *)
(***************************************************************************)
\* Emission a subnet receives each block; root receives none.
get_subnet_emission_value(netuid) ==
    IF netuid = 1 THEN 2 ELSE IF netuid = 2 THEN 3 ELSE 0

\* Blocks between two drains of a subnet's pending emission.
get_tempo(netuid) == IF netuid = 2 THEN 3 ELSE 1

\* Blocks between two drains of a hotkey's pending emission.
HotkeyEmissionTempo == 1

\* The take of a hotkey, out of TakeDenominator.
TakeDenominator == 4
get_hotkey_take(hotkey) == IF hotkey = "H1" THEN 1 ELSE 0

\* The number a hotkey's drain blocks are offset by.
HotkeyOffset(hotkey) == IF hotkey = "H1" THEN 1 ELSE 0

\* The subnet's pending emission is drained at this block.
should_run_epoch(netuid, blk) ==
    (blk + netuid + 1) % (get_tempo(netuid) + 1) = get_tempo(netuid)

\* The hotkey's pending emission is drained at this block.
should_drain_hotkey(hotkey, blk) ==
    (HotkeyOffset(hotkey) + blk) % (HotkeyEmissionTempo + 1) = 0

\* The hotkeys and coldkeys in iteration order.
HotkeyOrder == <<"H1", "H2">>
ColdkeyOrder == <<"C1", "C2">>

\* Every subnet's pending emission grows by its emission value.
RECURSIVE accrue_pending_emission(_, _)
accrue_pending_emission(s, i) ==
    IF i > Len(get_all_subnet_netuids) THEN s
    ELSE LET netuid == get_all_subnet_netuids[i]
         IN accrue_pending_emission(
                [s EXCEPT !.PendingEmission[netuid] =
                     saturating_add(@, get_subnet_emission_value(netuid))],
                i + 1)

\* The part of a subnet's drained emission that each hotkey receives, when
\* the subnet's epoch gives H1 incentive parts of MaxIncentive.
MaxIncentive == 2
hotkey_emission_of_epoch(hotkey, emission, incentive) ==
    LET first == (emission * incentive) \div MaxIncentive
    IN IF hotkey = "H1" THEN first ELSE emission - first

\* The subnets from the i-th on that drain at blk hand their pending
\* emission to the hotkeys' pending emission.
RECURSIVE drain_subnets(_, _, _, _)
drain_subnets(s, blk, incentive, i) ==
    IF i > Len(get_all_subnet_netuids) THEN s
    ELSE LET netuid == get_all_subnet_netuids[i]
             emission == s.PendingEmission[netuid]
             s1 == [s EXCEPT
                      !.PendingEmission[netuid] = 0,
                      !.PendingHotkeyEmission =
                          [h \in Hotkeys |->
                              saturating_add(
                                  @[h],
                                  hotkey_emission_of_epoch(h, emission, incentive))]]
         IN IF should_run_epoch(netuid, blk)
            THEN drain_subnets(s1, blk, incentive, i + 1)
            ELSE drain_subnets(s, blk, incentive, i + 1)

\* The stake a coldkey holds on a hotkey over all subnets.
get_stake_for_coldkey_and_hotkey(s, coldkey, hotkey) ==
    SumOver([n \in Netuids |-> s.alpha[<<hotkey, coldkey, n>>]], Netuids)

\* The stake-weighted share of a nominator in what remains after the take.
nominator_emission(remaining, stake, total) ==
    IF total = 0 THEN 0 ELSE (remaining * stake) \div total

\* The nominators from the i-th on are credited their shares of remaining,
\* computed on the stake held at the drain (in s0); paid is the sum of the
\* shares credited.
RECURSIVE pay_nominators(_, _, _, _, _, _)
pay_nominators(s, s0, hotkey, remaining, netuid, i) ==
    IF i > Len(ColdkeyOrder) THEN [s |-> s, paid |-> 0]
    ELSE LET coldkey == ColdkeyOrder[i]
             share == nominator_emission(
                          remaining,
                          get_stake_for_coldkey_and_hotkey(s0, coldkey, hotkey),
                          s0.ths[hotkey])
             rest == pay_nominators(
                         increase_stake_for_hotkey_and_coldkey_on_subnet(
                             s, hotkey, coldkey, netuid, share),
                         s0, hotkey, remaining, netuid, i + 1)
         IN [s |-> rest.s, paid |-> share + rest.paid]

\* drain_hotkey_emission with the owner credited the take alone: what the
\* floored shares leave of the rest is credited to nobody.
drain_hotkey_emission_dropping_rest(s, hotkey, netuid) ==
    LET emission == s.PendingHotkeyEmission[hotkey]
        hotkey_take == (emission * get_hotkey_take(hotkey)) \div TakeDenominator
        remaining == emission - hotkey_take
        nominators == pay_nominators(
                          [s EXCEPT !.PendingHotkeyEmission[hotkey] = 0],
                          s, hotkey, remaining, netuid, 1)
    IN increase_stake_for_hotkey_and_coldkey_on_subnet(
           nominators.s, hotkey, Owner[hotkey], netuid, hotkey_take)

\* The hotkey's pending emission becomes stake: the take, and what the
\* nominators' shares leave of the rest, go to the owner of the hotkey.
drain_hotkey_emission(s, hotkey, netuid) ==
    LET emission == s.PendingHotkeyEmission[hotkey]
        hotkey_take == (emission * get_hotkey_take(hotkey)) \div TakeDenominator
        remaining == emission - hotkey_take
        nominators == pay_nominators(
                          [s EXCEPT !.PendingHotkeyEmission[hotkey] = 0],
                          s, hotkey, remaining, netuid, 1)
    IN increase_stake_for_hotkey_and_coldkey_on_subnet(
           nominators.s, hotkey, Owner[hotkey], netuid,
           hotkey_take + (remaining - nominators.paid))

\* The hotkeys from the i-th on that drain at blk are drained.
RECURSIVE drain_hotkeys(_, _, _, _)
drain_hotkeys(s, blk, netuid, i) ==
    IF i > Len(HotkeyOrder) THEN s
    ELSE IF should_drain_hotkey(HotkeyOrder[i], blk)
         THEN drain_hotkeys(drain_hotkey_emission(s, HotkeyOrder[i], netuid),
                            blk, netuid, i + 1)
         ELSE drain_hotkeys(s, blk, netuid, i + 1)

\* The emission step of block blk: accrual, the subnets' drains, the
\* hotkeys' drains.  incentive is the outcome of the epochs, netuid the
\* subnet the new stake is credited on.
run_coinbase(s, blk, incentive, netuid) ==
    LET accrued == accrue_pending_emission(s, 1)
        drained == drain_subnets(accrued, blk, incentive, 1)
    IN [s |-> drain_hotkeys(drained, blk, netuid, 1), result |-> "Ok", tao |-> 0,
        coinbase |-> [h \in Hotkeys |->
                         drained.PendingHotkeyEmission[h]
                             - s.PendingHotkeyEmission[h]]]

(***************************************************************************)
(* The state machine.  An extrinsic runs to completion in one step (Call   *)
(* steps); the block-execution driver then takes its result (Return)       *)
(* before it dispatches the next one.                                      *)
(***************************************************************************)
Origins ==
    {[signed |-> TRUE, who |-> c] : c \in Coldkeys}
        \cup {[signed |-> FALSE, who |-> "none"]}

NoCall ==
    [op |-> "none", origin |-> [signed |-> FALSE, who |-> "none"], hotkey |-> "H3",
     netuid |-> 0, amount |-> 0, block |-> 0, uid |-> 0, result |-> "none",
     tao |-> 0,
     stake_ins |-> <<>>,
     evm |-> [amount |-> 0, txdata |-> [len |-> 0, method |-> "none"],
              gas |-> "none",
              result |-> PrecompileResult(FALSE, "none", <<>>, <<>>)],
     lint |-> [source |-> <<>>, result |-> [ok |-> TRUE, errors |-> <<>>]],
     coinbase |-> [h \in Hotkeys |-> 0],
     precompile |-> [set |-> "none", index |-> DistinctIndexes,
                     address |-> hash(0), enabled |-> {},
                     is_precompile |-> FALSE, execute |-> ExecuteNone]]

\* Initial stake: each (hotkey, coldkey) pair of InitPairs either holds
\* InitStake on each of its entries of InitEntries, or holds nothing.
InitPairs == {<<"H1", "C1">>, <<"H1", "C2">>, <<"H2", "C2">>}
InitEntries ==
    {<<"H1", "C1", 0>>, <<"H1", "C1", 1>>, <<"H1", "C1", 2>>,
     <<"H1", "C2", 2>>, <<"H2", "C2", 1>>}
\* Pending child-key records a hotkey has initially, if its stake is at or
\* above the threshold (children are scheduled by a hotkey with that stake).
InitPending == {<<1, "H1">>, <<2, "H1">>, <<0, "H2">>}

\* The slot storage of the initial state.  Subnet 1 is empty.  Subnet 2
\* holds one neuron, hotkey H1 at uid 0, registered at block 1, that has
\* been through an epoch (its metrics are set), is inactive, and has a
\* certificate and axon info.
InitialSlots ==
    LET one(v) == [n \in SlotNetuids |-> IF n = 2 THEN <<v>> ELSE <<>>]
    IN [SubnetworkN |-> [n \in SlotNetuids |-> IF n = 2 THEN 1 ELSE 0],
        Rank |-> one(1), Trust |-> one(1), Active |-> one(FALSE),
        Emission |-> one(1), Consensus |-> one(1), Incentive |-> one(1),
        Dividends |-> one(1), LastUpdate |-> one(1), PruningScores |-> one(1),
        ValidatorTrust |-> one(1), ValidatorPermit |-> one(TRUE),
        Keys |-> [n \in SlotNetuids |->
                     [u \in Uid16 |-> IF n = 2 /\ u = 0 THEN "H1" ELSE NoKey]],
        Uids |-> [n \in SlotNetuids |->
                     [h \in SlotHotkeys |-> IF n = 2 /\ h = "H1" THEN 0 ELSE NoUid]],
        BlockAtRegistration |->
            [n \in SlotNetuids |-> [u \in Uid16 |-> IF n = 2 /\ u = 0 THEN 1 ELSE 0]],
        IsNetworkMember |-> [k \in SlotHotkeys \X SlotNetuids |-> k = <<"H1", 2>>],
        NeuronCertificates |-> [n \in SlotNetuids |-> IF n = 2 THEN {"H1"} ELSE {}],
        Axons |-> [n \in SlotNetuids |-> IF n = 2 THEN {"H1"} ELSE {}]]

InitSlots ==
    /\ SubnetworkN = InitialSlots.SubnetworkN
    /\ Rank = InitialSlots.Rank
    /\ Trust = InitialSlots.Trust
    /\ Active = InitialSlots.Active
    /\ Emission = InitialSlots.Emission
    /\ Consensus = InitialSlots.Consensus
    /\ Incentive = InitialSlots.Incentive
    /\ Dividends = InitialSlots.Dividends
    /\ LastUpdate = InitialSlots.LastUpdate
    /\ PruningScores = InitialSlots.PruningScores
    /\ ValidatorTrust = InitialSlots.ValidatorTrust
    /\ ValidatorPermit = InitialSlots.ValidatorPermit
    /\ Keys = InitialSlots.Keys
    /\ Uids = InitialSlots.Uids
    /\ BlockAtRegistration = InitialSlots.BlockAtRegistration
    /\ IsNetworkMember = InitialSlots.IsNetworkMember
    /\ NeuronCertificates = InitialSlots.NeuronCertificates
    /\ Axons = InitialSlots.Axons

\* The storage after genesis and the first registrations, but for the
\* stake weights.
InitStorage ==
    /\ Balance = [c \in Coldkeys |-> 0]
    /\ \E staked \in SUBSET InitPairs :
           Alpha = [k \in StakeKeys |->
                       IF <<k[1], k[2]>> \in staked /\ k \in InitEntries
                       THEN InitStake ELSE 0]
    /\ TotalHotkeyAlpha =
           [k \in Hotkeys \X Netuids |->
               SumOver([c \in Coldkeys |-> Alpha[<<k[1], c, k[2]>>]], Coldkeys)]
    /\ TotalHotkeyStake =
           [h \in Hotkeys |->
               SumOver([k \in Coldkeys \X Netuids |-> Alpha[<<h, k[1], k[2]>>]],
                       Coldkeys \X Netuids)]
    /\ PendingChildKeys =
           [k \in Netuids \X Hotkeys |->
               IF k \in InitPending /\ TotalHotkeyStake[k[2]] >= StakeThreshold
               THEN {"child"} ELSE {}]
    /\ LastTxBlock = [c \in Coldkeys |-> IF c = "C1" THEN 1 ELSE 0]
    /\ InitSlots
    /\ PendingEmission = [n \in Netuids |-> 0]
    /\ PendingHotkeyEmission = [h \in Hotkeys |-> 0]
    /\ misuse = {}
    /\ fees = 0
    /\ block = 2
    /\ last = NoCall
    /\ pre = Store

\* The stake weights while the staking operations are explored.
InitialStakeWeight ==
    [h \in AllHotkeys |-> IF h = "H1" THEN 2 ELSE IF h = "H2" THEN 1 ELSE 0]

Init ==
    /\ StakeWeight = InitialStakeWeight
    /\ InitStorage

\* Writes the result of a call or of a block step back to storage and
\* records it.
CommitStorage(r, call) ==
    /\ fees < MaxFees
    /\ Balance' = r.s.bal
    /\ Alpha' = r.s.alpha
    /\ TotalHotkeyAlpha' = r.s.tha
    /\ TotalHotkeyStake' = r.s.ths
    /\ PendingChildKeys' = r.s.pck
    /\ LastTxBlock' = r.s.ltb
    /\ fees' = r.s.fees
    /\ SubnetworkN' = r.s.SubnetworkN
    /\ Rank' = r.s.Rank
    /\ Trust' = r.s.Trust
    /\ Active' = r.s.Active
    /\ Emission' = r.s.Emission
    /\ Consensus' = r.s.Consensus
    /\ Incentive' = r.s.Incentive
    /\ Dividends' = r.s.Dividends
    /\ LastUpdate' = r.s.LastUpdate
    /\ PruningScores' = r.s.PruningScores
    /\ ValidatorTrust' = r.s.ValidatorTrust
    /\ ValidatorPermit' = r.s.ValidatorPermit
    /\ Keys' = r.s.Keys
    /\ Uids' = r.s.Uids
    /\ BlockAtRegistration' = r.s.BlockAtRegistration
    /\ IsNetworkMember' = r.s.IsNetworkMember
    /\ NeuronCertificates' = r.s.NeuronCertificates
    /\ Axons' = r.s.Axons
    /\ StakeWeight' = r.s.StakeWeight
    /\ PendingEmission' = r.s.PendingEmission
    /\ PendingHotkeyEmission' = r.s.PendingHotkeyEmission
    /\ last' = [op |-> call.op, origin |-> call.origin, hotkey |-> call.hotkey,
                netuid |-> call.netuid, amount |-> call.amount, block |-> block,
                uid |-> IF "uid" \in DOMAIN call THEN call.uid ELSE 0,
                result |-> r.result, tao |-> r.tao,
                stake_ins |-> IF "stake_ins" \in DOMAIN r THEN r.stake_ins ELSE <<>>,
                evm |-> IF "evm" \in DOMAIN r
                        THEN [amount |-> call.evm_amount, txdata |-> call.txdata,
                              gas |-> call.gas, result |-> r.evm]
                        ELSE NoCall.evm,
                lint |-> IF "lint" \in DOMAIN r
                         THEN [source |-> call.source, result |-> r.lint]
                         ELSE NoCall.lint,
                coinbase |-> IF "coinbase" \in DOMAIN r THEN r.coinbase
                             ELSE NoCall.coinbase,
                precompile |-> IF "precompile" \in DOMAIN r
                               THEN [set |-> call.set, index |-> call.index,
                                     address |-> call.address,
                                     enabled |-> call.enabled,
                                     is_precompile |-> r.precompile.is_precompile,
                                     execute |-> r.precompile.execute]
                               ELSE NoCall.precompile]
    /\ pre' = Store
    /\ misuse' = misuse \cup (IF "misuse" \in DOMAIN call THEN call.misuse ELSE {})

\* An extrinsic call: the block stays.
Commit(r, call) == CommitStorage(r, call) /\ UNCHANGED block

RemoveStakeCall(origins, hotkeys) ==
    \E origin \in origins, hotkey \in hotkeys, netuid \in Netuids,
       alpha_unstaked \in 0..MaxAmount :
        Commit(do_remove_stake(Store, block, origin, hotkey, netuid, alpha_unstaked),
               [op |-> "remove_stake", origin |-> origin, hotkey |-> hotkey,
                netuid |-> netuid, amount |-> alpha_unstaked])

RemoveStake == last = NoCall /\ RemoveStakeCall(Origins, AllHotkeys)

UnstakeAll ==
    /\ last = NoCall
    /\ \E origin \in Origins, hotkey \in AllHotkeys :
        Commit(do_unstake_all(Store, origin, hotkey),
               [op |-> "unstake_all", origin |-> origin, hotkey |-> hotkey,
                netuid |-> 0, amount |-> 0])

UnstakeAllAlpha ==
    /\ last = NoCall
    /\ \E origin \in Origins, hotkey \in AllHotkeys :
        Commit(do_unstake_all_alpha(Store, origin, hotkey),
               [op |-> "unstake_all_alpha", origin |-> origin, hotkey |-> hotkey,
                netuid |-> 0, amount |-> 0])

\* Limit prices tried by remove_stake_limit.
LimitPrices == 0..MaxLimitPrice

RemoveStakeLimit ==
    /\ last = NoCall
    /\ \E origin \in Origins, hotkey \in AllHotkeys, netuid \in Netuids,
          stake_to_be_added \in 0..MaxAmount, limit_price \in LimitPrices :
        Commit(do_remove_stake_limit(Store, origin, hotkey, netuid,
                                     stake_to_be_added, limit_price),
               [op |-> "remove_stake_limit", origin |-> origin, hotkey |-> hotkey,
                netuid |-> netuid, amount |-> stake_to_be_added])

\* The driver has taken the result of the last call.
Return ==
    /\ last # NoCall
    /\ last' = NoCall
    /\ pre' = Store
    /\ UNCHANGED <<Balance, Alpha, TotalHotkeyAlpha, TotalHotkeyStake,
                   PendingChildKeys, LastTxBlock, slot_vars, StakeWeight,
                   PendingEmission, PendingHotkeyEmission, fees, block, misuse>>

\* The block-execution driver moves to the next block.
AdvanceBlock ==
    /\ block < MaxBlock
    /\ block' = block + 1
    /\ UNCHANGED <<Balance, Alpha, TotalHotkeyAlpha, TotalHotkeyStake,
                   PendingChildKeys, LastTxBlock, slot_vars, StakeWeight,
                   PendingEmission, PendingHotkeyEmission, fees, misuse, last, pre>>

Next ==
    \/ RemoveStake \/ UnstakeAll \/ UnstakeAllAlpha \/ RemoveStakeLimit
    \/ Return \/ AdvanceBlock

Spec == Init /\ [][Next]_vars

\* remove_stake calls of the signed coldkeys on hotkey H1, dispatched back
\* to back (two calls of one coldkey within the rate-limit window).
RemoveStakeSeq ==
    RemoveStakeCall({o \in Origins : o.signed}, {"H1"})

NextSeq == RemoveStakeSeq \/ AdvanceBlock

SpecSeq == Init /\ [][NextSeq]_vars

\* The EVM amounts tried: the lowest ones and the ones around the largest
\* amount whose converted value is in the native range.
EvmAmounts ==
    0..(EvmToSubstrateDecimals + 1)
        \cup (EvmToSubstrateDecimals * U64Max - 1)..U256Max

\* The call data tried: too short for a method id, a method id alone, a
\* method id and a 32-byte address.
TxDatas ==
    [len : {0, 4, 36}, method : {"transfer(bytes32)", "other"}]

\* The staking calls made through the adapter.
EvmCalls ==
    [op : {"remove_stake"}, hotkey : AllHotkeys, netuid : {1},
     amount : {1, MaxAmount}]
        \cup [op : {"unstake_all"}, hotkey : {"H1"}, netuid : {0}, amount : {0}]

\* The balance-transfer precompile is called with some value and call data.
EvmBalanceTransfer ==
    /\ last = NoCall
    /\ \E txdata \in TxDatas, amount \in EvmAmounts, transfer_ok \in BOOLEAN :
        Commit([s |-> Store, result |-> "none", tao |-> 0,
                evm |-> BalanceTransferPrecompile_execute(txdata, amount, transfer_ok)],
               [op |-> "balance_transfer", origin |-> NoCall.origin,
                hotkey |-> NoCall.hotkey, netuid |-> 0, amount |-> 0,
                evm_amount |-> amount, txdata |-> txdata, gas |-> "none"])

\* A staking precompile hands a call and the value it received to dispatch.
EvmDispatch ==
    /\ last = NoCall
    /\ \E caller \in Coldkeys, call \in EvmCalls, amount \in EvmAmounts,
          address_ok \in BOOLEAN, transfer_ok \in BOOLEAN :
        Commit(dispatch(Store, block, caller, call, amount, address_ok, transfer_ok),
               [op |-> "dispatch", origin |-> [signed |-> TRUE, who |-> caller],
                hotkey |-> call.hotkey, netuid |-> call.netuid,
                amount |-> call.amount, evm_amount |-> amount,
                txdata |-> NoCall.evm.txdata, gas |-> "none",
                call_op |-> call.op])

\* A precompile hands a call to try_dispatch_runtime_call.
EvmTryDispatch ==
    /\ last = NoCall
    /\ \E origin \in Origins, call \in EvmCalls, gas \in GasCases :
        Commit(try_dispatch_runtime_call(Store, block, call, origin, gas),
               [op |-> "try_dispatch_runtime_call", origin |-> origin,
                hotkey |-> call.hotkey, netuid |-> call.netuid,
                amount |-> call.amount, evm_amount |-> 0,
                txdata |-> NoCall.evm.txdata, gas |-> gas, call_op |-> call.op])

NextEvm == EvmBalanceTransfer \/ EvmDispatch \/ EvmTryDispatch \/ Return

SpecEvm == Init /\ [][NextEvm]_vars

\* Appends are explored while the arrays of the subnet hold at most U16Max
\* elements, so that one append is made at the maximum slot count.
MaxSlots == U16Max + 1

\* The fields of the storage that are keyed by netuid first.
PerSubnetFields ==
    {"SubnetworkN", "Rank", "Trust", "Active", "Emission", "Consensus",
     "Incentive", "Dividends", "LastUpdate", "PruningScores", "ValidatorTrust",
     "ValidatorPermit", "Keys", "Uids", "BlockAtRegistration",
     "NeuronCertificates", "Axons"}

\* The slot storage of a subnet as one value.
SlotsOf(s, netuid) ==
    [per_subnet |-> [f \in PerSubnetFields |-> s[f][netuid]],
     members |-> {h \in SlotHotkeys : s.IsNetworkMember[<<h, netuid>>]}]

\* Subnets are explored one at a time: the slot manager is called on a
\* subnet while every other subnet is as it was initially.
OthersInitial(netuid) ==
    \A m \in SlotNetuids \ {netuid} :
        SlotsOf(Store, m) = SlotsOf(InitialSlots, m)

\* What a slot-manager call does that registration, the caller of
\* append_neuron and replace_neuron, does not do: append at the maximum
\* slot count, replace on a uid that has no occupant, register a hotkey
\* that holds another uid of the subnet already.
Misuse(op, netuid, uid, new_hotkey) ==
    {k \in {"append_at_max", "replace_unoccupied", "registered_hotkey"} :
        \/ k = "append_at_max" /\ op = "append_neuron"
               /\ SubnetworkN[netuid] = U16Max
        \/ k = "replace_unoccupied" /\ op = "replace_neuron"
               /\ Keys[netuid][uid] = NoKey
        \/ k = "registered_hotkey"
               /\ \E u \in Uid16 :
                      /\ Keys[netuid][u] = new_hotkey
                      /\ op = "replace_neuron" => u # uid}

AppendNeuron ==
    /\ last = NoCall
    /\ \E netuid \in SlotNetuids, new_hotkey \in AllHotkeys :
        /\ OthersInitial(netuid)
        /\ Len(Rank[netuid]) < MaxSlots
        /\ Commit([s |-> append_neuron(Store, netuid, new_hotkey, block),
                   result |-> "Ok", tao |-> 0],
                  [op |-> "append_neuron", origin |-> NoCall.origin,
                   hotkey |-> new_hotkey, netuid |-> netuid, amount |-> 0,
                   uid |-> 0,
                   misuse |-> Misuse("append_neuron", netuid, 0, new_hotkey)])

ReplaceNeuron ==
    /\ last = NoCall
    /\ \E netuid \in SlotNetuids, uid_to_replace \in Uid16, new_hotkey \in AllHotkeys :
        /\ OthersInitial(netuid)
        /\ Commit([s |-> replace_neuron(Store, netuid, uid_to_replace, new_hotkey, block),
                result |-> "Ok", tao |-> 0],
               [op |-> "replace_neuron", origin |-> NoCall.origin,
                hotkey |-> new_hotkey, netuid |-> netuid, amount |-> 0,
                uid |-> uid_to_replace,
                misuse |-> Misuse("replace_neuron", netuid, uid_to_replace,
                                  new_hotkey)])

ClearNeuron ==
    /\ last = NoCall
    /\ \E netuid \in SlotNetuids, neuron_uid \in Uid16 :
        /\ OthersInitial(netuid)
        /\ Commit([s |-> clear_neuron(Store, netuid, neuron_uid),
                result |-> "Ok", tao |-> 0],
               [op |-> "clear_neuron", origin |-> NoCall.origin,
                hotkey |-> NoCall.hotkey, netuid |-> netuid, amount |-> 0,
                uid |-> neuron_uid])

NextUids == AppendNeuron \/ ReplaceNeuron \/ ClearNeuron \/ Return

\* The stake weights the slot manager is explored under: every assignment
\* of a weight up to MaxWeight to the hotkeys C1 owns (equal weights and
\* either order), H2 as initially.
WeightConfigs ==
    {w \in [AllHotkeys -> 0..MaxWeight] : w["H2"] = InitialStakeWeight["H2"]}

\* The slot manager alone: no stake is held.
InitUids ==
    /\ StakeWeight \in WeightConfigs
    /\ InitStorage
    /\ \A k \in StakeKeys : Alpha[k] = 0

SpecUids == InitUids /\ [][NextUids]_vars

\* ---------------------------------------------------------------------
\* The explicit-pallet-index lint (support/linting/src/pallet_index.rs).
\* ---------------------------------------------------------------------

\* A pallet declaration without an index.
NoIndex == 0 - 1

\* Sizes of the source files linted.
MaxMacros == 2
MaxPallets == 2

\* The sequences over S of length at most n.
SeqUpTo(S, n) == UNION {[1..k -> S] : k \in 0..n}

\* The pallets of a declaration: a name and an index or NoIndex.
PalletDeclarations == [name : {"PalletA", "PalletB"}, index : {NoIndex, 0}]

\* What parsing the tokens of an invocation as a RuntimeDeclaration yields:
\* an error, or a declaration of one of the variants with its pallets.
RuntimeDeclarations ==
    {[kind |-> "Err", pallets |-> <<>>]}
        \cup [kind : {"Explicit", "Implicit"},
              pallets : SeqUpTo(PalletDeclarations, MaxPallets)]

\* The item macros of a file: the path of the macro, as its segments, and
\* what its tokens parse to.
MacroPaths ==
    {<<"construct_runtime">>, <<"frame_support", "construct_runtime">>,
     <<"decl_storage">>}
ItemMacros == [path : MacroPaths, tokens : RuntimeDeclarations]

\* Path::is_ident: the path is the one segment ident.
is_ident(path, ident) == Len(path) = 1 /\ path[1] = ident

\* The errors pushed for the pallets of an explicit declaration from the
\* i-th on.
RECURSIVE pallet_errors(_, _)
pallet_errors(pallets, i) ==
    IF i > Len(pallets) THEN <<>>
    ELSE (IF pallets[i].index = NoIndex
          THEN <<[kind |-> "no explicit index", pallet |-> pallets[i].name]>>
          ELSE <<>>)
         \o pallet_errors(pallets, i + 1)

\* ConstructRuntimeVisitor::visit_item_macro: the errors it pushes.
visit_item_macro(node) ==
    IF is_ident(node.path, "construct_runtime")
    THEN IF node.tokens.kind = "Err"
         THEN <<[kind |-> "parse error", pallet |-> "none"]>>
         ELSE IF node.tokens.kind = "Explicit"
              THEN pallet_errors(node.tokens.pallets, 1)
              ELSE <<>>
    ELSE <<>>

\* visit_file: the visitor is taken to every item macro of the file.
RECURSIVE visit_file(_, _)
visit_file(source, i) ==
    IF i > Len(source) THEN <<>>
    ELSE visit_item_macro(source[i]) \o visit_file(source, i + 1)

\* RequireExplicitPalletIndex::lint.
RequireExplicitPalletIndex_lint(source) ==
    LET errors == visit_file(source, 1)
    IN IF errors # <<>> THEN [ok |-> FALSE, errors |-> errors]
       ELSE [ok |-> TRUE, errors |-> <<>>]

\* The files linted.
SourceFiles == SeqUpTo(ItemMacros, MaxMacros)

\* The lint is run on a source file.
LintFile ==
    /\ last = NoCall
    /\ \E source \in SourceFiles :
        Commit([s |-> Store, result |-> "none", tao |-> 0,
                lint |-> RequireExplicitPalletIndex_lint(source)],
               [op |-> "lint", origin |-> NoCall.origin, hotkey |-> NoCall.hotkey,
                netuid |-> 0, amount |-> 0, source |-> source])

NextLint == LintFile \/ Return

SpecLint == Init /\ [][NextLint]_vars

\* ---------------------------------------------------------------------
\* The emission engine alone.
\* ---------------------------------------------------------------------

\* Last block the emission engine is stepped to.
MaxEmissionBlock == 6

\* The block-execution driver moves to the next block and runs its emission
\* step.
BlockStep ==
    /\ last = NoCall
    /\ block < MaxEmissionBlock
    /\ \E incentive \in 0..MaxIncentive, netuid \in Netuids :
        CommitStorage(run_coinbase(Store, block + 1, incentive, netuid),
                      [op |-> "block_step", origin |-> NoCall.origin,
                       hotkey |-> NoCall.hotkey, netuid |-> netuid,
                       amount |-> incentive])
    /\ block' = block + 1

NextEmission == BlockStep \/ Return

SpecEmission == Init /\ [][NextEmission]_vars

\* ---------------------------------------------------------------------
\* unstake_all_alpha on stake near the largest 64-bit amount.
\* ---------------------------------------------------------------------

\* The stake an entry of hotkey H1 on a non-root subnet may hold initially:
\* nothing, small amounts, and amounts whose TAO values add up to less
\* than, exactly and more than U64Max.
LargeStakes == {0, 2, InitStake, U64Max \div 4, U64Max \div 2}

\* The storage with such stake on H1, within the range of the aggregates.
InitLargeStakes ==
    /\ StakeWeight = InitialStakeWeight
    /\ Balance = [c \in Coldkeys |-> 0]
    /\ \E stake \in [Coldkeys \X (Netuids \ {get_root_netuid}) -> LargeStakes] :
           Alpha = [k \in StakeKeys |->
                       IF k[1] = "H1" /\ k[3] # get_root_netuid
                       THEN stake[<<k[2], k[3]>>] ELSE 0]
    /\ TotalHotkeyAlpha =
           [k \in Hotkeys \X Netuids |->
               SumOver([c \in Coldkeys |-> Alpha[<<k[1], c, k[2]>>]], Coldkeys)]
    /\ TotalHotkeyStake =
           [h \in Hotkeys |->
               SumOver([k \in Coldkeys \X Netuids |-> Alpha[<<h, k[1], k[2]>>]],
                       Coldkeys \X Netuids)]
    /\ \A h \in Hotkeys : TotalHotkeyStake[h] <= U64Max
    /\ PendingChildKeys = [k \in Netuids \X Hotkeys |-> {}]
    /\ LastTxBlock = [c \in Coldkeys |-> 0]
    /\ InitSlots
    /\ PendingEmission = [n \in Netuids |-> 0]
    /\ PendingHotkeyEmission = [h \in Hotkeys |-> 0]
    /\ misuse = {}
    /\ fees = 0
    /\ block = 2
    /\ last = NoCall
    /\ pre = Store

NextLargeStakes == UnstakeAllAlpha \/ Return

SpecLargeStakes == InitLargeStakes /\ [][NextLargeStakes]_vars

\* ---------------------------------------------------------------------
\* The precompile sets are asked about a code address.
\* ---------------------------------------------------------------------
\* The code addresses tried: below, at, between and above the used
\* addresses, and addresses whose low 64 bits are those of a used address.
CodeAddresses ==
    {hash(a) : a \in (0..6) \cup (1023..1027) \cup (2046..2054)}
        \cup {[high |-> 1, low |-> a] : a \in {1, 1024, 2048}}

\* What the precompile that runs returns.
InnerResults ==
    {PrecompileResult(FALSE, "Returned", <<>>, <<>>),
     PrecompileResult(TRUE, "Other", <<"precompile failed">>, <<>>)}

\* The EVM asks Precompiles whether the code address is a precompile and
\* executes it there; PrecompileEnable holds some flags.
PrecompilesCall ==
    /\ last = NoCall
    /\ \E index \in PrecompileIndexes, address \in CodeAddresses,
          enabled \in SUBSET PrecompileEnum, inner \in InnerResults :
        Commit([s |-> Store, result |-> "none", tao |-> 0,
                precompile |->
                    [is_precompile |-> Precompiles_is_precompile(index, address),
                     execute |-> Precompiles_execute(index, address, enabled,
                                                     inner)]],
               [op |-> "precompile", origin |-> NoCall.origin,
                hotkey |-> NoCall.hotkey, netuid |-> 0, amount |-> 0,
                set |-> "Precompiles", index |-> index, address |-> address,
                enabled |-> enabled])

\* The same of FrontierPrecompiles, which reads no flag.
FrontierPrecompilesCall ==
    /\ last = NoCall
    /\ \E index \in PrecompileIndexes, address \in CodeAddresses,
          inner \in InnerResults :
        Commit([s |-> Store, result |-> "none", tao |-> 0,
                precompile |->
                    [is_precompile |->
                         FrontierPrecompiles_is_precompile(index, address),
                     execute |-> FrontierPrecompiles_execute(index, address,
                                                             inner)]],
               [op |-> "precompile", origin |-> NoCall.origin,
                hotkey |-> NoCall.hotkey, netuid |-> 0, amount |-> 0,
                set |-> "FrontierPrecompiles", index |-> index,
                address |-> address, enabled |-> {}])

NextPrecompiles == PrecompilesCall \/ FrontierPrecompilesCall \/ Return

SpecPrecompiles == Init /\ [][NextPrecompiles]_vars

(***************************************************************************)
(* Properties.  A call state (last # NoCall) holds the storage after the   *)
(* call in the variables and the storage before it in pre.                 *)
(***************************************************************************)
who == last.origin.who
called_key == <<last.hotkey, who, last.netuid>>

ValidationErrors ==
    {"NotRegistered", "NonAssociatedColdKey", "NotEnoughStakeToWithdraw",
     "TxRateLimitExceeded"}

RemoveStakeOk == last.op = "remove_stake" /\ last.result = "Ok"

\* TAO value of a storage: free balances plus stake at the subnets' prices.
TotalValue(s) ==
    SumOver(s.bal, Coldkeys)
        + SumOver([k \in StakeKeys |-> s.alpha[k] * AlphaPrice(k[3])], StakeKeys)

\* What remove_stake leaves in the entry before the dust cleanup looks at it.
Residual == pre.alpha[called_key] - last.amount
ResidualIsDust == Residual < NominatorMinRequiredStake

\* C1: whenever do_remove_stake returns NotRegistered, NonAssociatedColdKey,
\* NotEnoughStakeToWithdraw or TxRateLimitExceeded, the condition of that
\* error held before the call and every ledger (free balances, stake
\* entries, aggregates, pending child-key records) is as it was before it.
C1_RemoveStakeErrorLeavesLedgers ==
    (last.op = "remove_stake" /\ last.result \in ValidationErrors) =>
        /\ Store = pre
        /\ last.result = "NotRegistered" => last.hotkey \notin Hotkeys
        /\ last.result = "NonAssociatedColdKey" =>
               /\ Owner[last.hotkey] # who
               /\ \A n \in Netuids : pre.alpha[<<last.hotkey, who, n>>] = 0
        /\ last.result = "NotEnoughStakeToWithdraw" =>
               pre.alpha[called_key] < last.amount
        /\ last.result = "TxRateLimitExceeded" =>
               /\ pre.ltb[who] # 0
               /\ last.block - pre.ltb[who] <= TxRateLimit

\* A remove_stake call of a staked coldkey was rejected for asking more than
\* the entry holds.
C1_Witness ==
    /\ last.op = "remove_stake"
    /\ last.result = "NotEnoughStakeToWithdraw"
    /\ pre.alpha[called_key] > 0

\* C2 (as claimed): when a remove_stake call of a coldkey has succeeded and
\* the same coldkey calls remove_stake again within the rate-limit window,
\* with the other three preconditions met, the second call returns
\* TxRateLimitExceeded and changes nothing.
C2_SecondCallRateLimited ==
    [][(/\ RemoveStakeOk
        /\ last'.op = "remove_stake"
        /\ <<last, pre>>' # <<last, pre>>
        /\ last'.origin = last.origin
        /\ last'.block - last.block <= TxRateLimit
        /\ last'.amount <= Alpha[<<last'.hotkey, last'.origin.who, last'.netuid>>])
       => (last'.result = "TxRateLimitExceeded" /\ Store' = Store)]_vars

C4_AggregatesConsistent ==
    /\ \A k \in Hotkeys \X Netuids :
           TotalHotkeyAlpha[k] =
               SumOver([c \in Coldkeys |-> Alpha[<<k[1], c, k[2]>>]], Coldkeys)
    /\ \A h \in Hotkeys :
           TotalHotkeyStake[h] =
               SumOver([k \in Coldkeys \X Netuids |-> Alpha[<<h, k[1], k[2]>>]],
                       Coldkeys \X Netuids)

\* unstake_all_alpha moved stake into the root entry of a hotkey on which
\* another coldkey holds root stake as well.
C4_Witness ==
    /\ last.op = "unstake_all_alpha"
    /\ last.result = "Ok"
    /\ TotalHotkeyAlpha[<<last.hotkey, get_root_netuid>>]
           > pre.tha[<<last.hotkey, get_root_netuid>>]
    /\ \E c \in Coldkeys \ {who} :
           Alpha[<<last.hotkey, c, get_root_netuid>>] > 0

\* C5: no stake entry, aggregate, free balance or fee total is below zero or
\* above the 64-bit range, and a remove_stake call asking for more than the
\* entry holds is either rejected, the entry unchanged, or leaves the entry
\* at zero.
C5_NonNegative ==
    /\ \A k \in StakeKeys : Alpha[k] \in 0..U64Max
    /\ \A k \in Hotkeys \X Netuids : TotalHotkeyAlpha[k] \in 0..U64Max
    /\ \A h \in Hotkeys : TotalHotkeyStake[h] \in 0..U64Max
    /\ \A c \in Coldkeys : Balance[c] \in 0..U64Max
    /\ fees \in 0..U64Max
    /\ (/\ last.op = "remove_stake"
        /\ last.origin.signed
        /\ last.hotkey \in Hotkeys
        /\ last.amount > pre.alpha[called_key]) =>
           \/ last.result \in ValidationErrors /\ Alpha[called_key] = pre.alpha[called_key]
           \/ last.result = "Ok" /\ Alpha[called_key] = 0

\* A signed remove_stake call asked for more than a non-empty entry holds.
C5_Witness ==
    /\ last.op = "remove_stake"
    /\ last.origin.signed
    /\ last.hotkey \in Hotkeys
    /\ pre.alpha[called_key] > 0
    /\ last.amount > pre.alpha[called_key]
    /\ Alpha[called_key] = pre.alpha[called_key]

\* Pending child-key records of the called hotkey after a successful
\* remove_stake: cleared on every subnet when the hotkey's total stake is
\* below the threshold, as before the call otherwise.
PendingAfterRemoveStake(netuid) ==
    IF TotalHotkeyStake[last.hotkey] < StakeThreshold
    THEN {}
    ELSE pre.pck[<<netuid, last.hotkey>>]

\* C6 (amended): a signed remove_stake call with alpha_amount = 0 is never
\* rejected for its amount; when it succeeds no fee is taken and nothing is
\* credited or debited, except by the two cleanup steps: an entry already
\* below the minimum nomination is cleared and its value credited to the
\* signer, and the hotkey's pending child-key records are cleared when its
\* total stake is below the threshold.
C6_ZeroAmountOnlyCleansUp ==
    (last.op = "remove_stake" /\ last.amount = 0 /\ last.origin.signed) =>
        /\ last.result \in
               {"Ok", "NotRegistered", "NonAssociatedColdKey", "TxRateLimitExceeded"}
        /\ last.result = "Ok" =>
            /\ last.tao = 0
            /\ fees = pre.fees
            /\ LastTxBlock = pre.ltb
            /\ \A k \in StakeKeys \ {called_key} : Alpha[k] = pre.alpha[k]
            /\ \A c \in Coldkeys \ {who} : Balance[c] = pre.bal[c]
            /\ IF pre.alpha[called_key] < NominatorMinRequiredStake
               THEN /\ Alpha[called_key] = 0
                    /\ Balance[who] =
                           pre.bal[who] + pre.alpha[called_key] * AlphaPrice(last.netuid)
               ELSE /\ Alpha[called_key] = pre.alpha[called_key]
                    /\ Balance[who] = pre.bal[who]
            /\ \A k \in Hotkeys \X Netuids :
                   TotalHotkeyAlpha[k] = pre.tha[k] - (pre.alpha[<<k[1], who, k[2]>>]
                                                        - Alpha[<<k[1], who, k[2]>>])
            /\ \A h \in Hotkeys :
                   TotalHotkeyStake[h] =
                       pre.ths[h] - (IF h = last.hotkey
                                     THEN pre.alpha[called_key] - Alpha[called_key]
                                     ELSE 0)
            /\ \A k \in Netuids \X Hotkeys :
                   PendingChildKeys[k] =
                       IF k[2] = last.hotkey THEN PendingAfterRemoveStake(k[1])
                       ELSE pre.pck[k]

\* A zero-amount remove_stake on an entry that holds stake succeeded and
\* changed nothing.
C6_Witness ==
    /\ RemoveStakeOk
    /\ last.amount = 0
    /\ pre.alpha[called_key] >= NominatorMinRequiredStake
    /\ \E n \in Netuids : pre.pck[<<n, last.hotkey>>] # {}
    /\ Store = pre

\* C6 (as claimed): a successful remove_stake with alpha_amount = 0 leaves
\* every ledger as it was.
C6_ZeroAmountChangesNothing ==
    (RemoveStakeOk /\ last.amount = 0) => Store = pre

\* C7 (amended): a successful remove_stake on subnet netuid leaves the stake
\* entries and the aggregates of every other subnet as they were; the
\* pending child-key records of the other subnets are as they were unless the
\* hotkey's resulting total stake is below the threshold, in which case the
\* hotkey's records are cleared on every subnet.
C7_OtherSubnetsOnlyLosePending ==
    RemoveStakeOk =>
        \A n \in Netuids \ {last.netuid} :
            /\ \A h \in Hotkeys, c \in Coldkeys :
                   Alpha[<<h, c, n>>] = pre.alpha[<<h, c, n>>]
            /\ \A h \in Hotkeys : TotalHotkeyAlpha[<<h, n>>] = pre.tha[<<h, n>>]
            /\ \A h \in Hotkeys \ {last.hotkey} :
                   PendingChildKeys[<<n, h>>] = pre.pck[<<n, h>>]
            /\ PendingChildKeys[<<n, last.hotkey>>] = PendingAfterRemoveStake(n)

\* A successful remove_stake on one subnet while the same pair holds stake
\* on another subnet, whose pending child-key record was kept.
C7_Witness ==
    /\ RemoveStakeOk
    /\ last.amount > 0
    /\ \E n \in Netuids \ {last.netuid} :
           /\ pre.alpha[<<last.hotkey, who, n>>] > 0
           /\ pre.pck[<<n, last.hotkey>>] # {}
           /\ PendingChildKeys[<<n, last.hotkey>>] # {}

\* C7 (as claimed): a successful remove_stake leaves the stake entries, the
\* aggregates and the pending child-key records of every other subnet as
\* they were.
C7_OtherSubnetsUntouched ==
    RemoveStakeOk =>
        \A n \in Netuids \ {last.netuid} :
            /\ \A h \in Hotkeys, c \in Coldkeys :
                   Alpha[<<h, c, n>>] = pre.alpha[<<h, c, n>>]
            /\ \A h \in Hotkeys :
                   /\ TotalHotkeyAlpha[<<h, n>>] = pre.tha[<<h, n>>]
                   /\ PendingChildKeys[<<n, h>>] = pre.pck[<<n, h>>]

\* C8: after a successful remove_stake, a hotkey whose total stake is below
\* StakeThreshold has no pending child-key record on any subnet; with the
\* total at or above the threshold the pending child-key records are those
\* of before the call.
C8_PendingChildrenFollowThreshold ==
    RemoveStakeOk =>
        IF TotalHotkeyStake[last.hotkey] < StakeThreshold
        THEN \A n \in Netuids : PendingChildKeys[<<n, last.hotkey>>] = {}
        ELSE PendingChildKeys = pre.pck

\* A successful remove_stake took the hotkey below the threshold and its
\* pending child-key records were removed.
C8_Witness ==
    /\ RemoveStakeOk
    /\ pre.ths[last.hotkey] >= StakeThreshold
    /\ TotalHotkeyStake[last.hotkey] < StakeThreshold
    /\ \E n \in Netuids : pre.pck[<<n, last.hotkey>>] # {}
    /\ \A n \in Netuids : PendingChildKeys[<<n, last.hotkey>>] = {}

\* C9: after a successful remove_stake the entry is zero or at least
\* NominatorMinRequiredStake; a residual below it is cleared, its TAO value
\* credited to the signer on top of the unstaked TAO and the aggregates
\* reduced by it; a residual at or above it stays.
C9_DustCleared ==
    RemoveStakeOk =>
        /\ Alpha[called_key] = 0 \/ Alpha[called_key] >= NominatorMinRequiredStake
        /\ Alpha[called_key] = IF ResidualIsDust THEN 0 ELSE Residual
        /\ Balance[who] - pre.bal[who] - last.tao =
               (Residual - Alpha[called_key]) * AlphaPrice(last.netuid)
        /\ TotalHotkeyAlpha[<<last.hotkey, last.netuid>>] =
               pre.tha[<<last.hotkey, last.netuid>>] - last.amount
                   - (Residual - Alpha[called_key])
        /\ TotalHotkeyStake[last.hotkey] =
               pre.ths[last.hotkey] - last.amount - (Residual - Alpha[called_key])

\* A successful remove_stake left a non-zero residual below the minimum,
\* which was cleared.
C9_Witness ==
    /\ RemoveStakeOk
    /\ last.amount > 0
    /\ Residual > 0
    /\ ResidualIsDust
    /\ Alpha[called_key] = 0

UnstakedTao(netuid) ==
    LET alpha == pre.alpha[<<last.hotkey, who, netuid>>]
    IN IF alpha > 0
       THEN saturating_sub(alpha * AlphaPrice(netuid), DefaultStakingFee)
       ELSE 0

\* Fee taken on a subnet when the whole entry of before the call is unstaked.
UnstakeFee(netuid) ==
    LET alpha == pre.alpha[<<last.hotkey, who, netuid>>]
    IN alpha * AlphaPrice(netuid) - UnstakedTao(netuid)

\* C11: after a successful unstake_all the stake entry of (hotkey, coldkey)
\* is zero on every subnet, root included; the coldkey's free balance has
\* grown by the sum, over the subnets where the entry was not zero, of the
\* TAO unstake_from_subnet returns for that entry with the staking fee taken
\* on each of these subnets; no other balance and no other entry changes.
C11_UnstakeAllZeroesAndCredits ==
    (last.op = "unstake_all" /\ last.result = "Ok") =>
        /\ \A n \in Netuids : Alpha[<<last.hotkey, who, n>>] = 0
        /\ Balance[who] =
               pre.bal[who] + SumOver([n \in Netuids |-> UnstakedTao(n)], Netuids)
        /\ fees = pre.fees + SumOver([n \in Netuids |-> UnstakeFee(n)], Netuids)
        /\ \A c \in Coldkeys \ {who} : Balance[c] = pre.bal[c]
        /\ \A k \in StakeKeys :
               (k[1] # last.hotkey \/ k[2] # who) => Alpha[k] = pre.alpha[k]

\* A successful unstake_all emptied entries on two subnets or more and paid
\* the signer.
C11_Witness ==
    /\ last.op = "unstake_all"
    /\ last.result = "Ok"
    /\ Cardinality({n \in Netuids : pre.alpha[<<last.hotkey, who, n>>] > 0}) >= 2
    /\ Balance[who] > pre.bal[who]
    /\ \A n \in Netuids : Alpha[<<last.hotkey, who, n>>] = 0

\* Sum of the TAO returned by the unstakes of unstake_all_alpha: one unstake
\* of the whole entry on every subnet but root where the entry was not zero.
TotalTaoUnstaked ==
    SumOver([n \in Netuids \ {get_root_netuid} |-> UnstakedTao(n)],
            Netuids \ {get_root_netuid})

C14_RemoveStakeLimitIsPlaceholder ==
    /\ \A n \in Netuids, p \in LimitPrices : get_max_amount_remove(n, p) = 0
    /\ last.op = "remove_stake_limit" =>
           /\ last.result = "Ok"
           /\ last.tao = 0
           /\ Store = pre

\* remove_stake_limit was called by a coldkey for an amount its entry
\* holds, and nothing was unstaked.
C14_Witness ==
    /\ last.op = "remove_stake_limit"
    /\ last.origin.signed
    /\ last.amount > 0
    /\ last.hotkey \in Hotkeys
    /\ pre.alpha[called_key] >= last.amount
    /\ Alpha[called_key] = pre.alpha[called_key]

\* The four entry points.
EntryPoints ==
    {"remove_stake", "unstake_all", "unstake_all_alpha", "remove_stake_limit"}

\* C15 (as claimed): a call of any of the four entry points with an origin
\* that is not signed fails and changes no state.
C15_UnsignedOriginFails ==
    (last.op \in EntryPoints /\ ~last.origin.signed) =>
        (last.result # "Ok" /\ Store = pre)

\* What holds of the three entry points that call ensure_signed: with an
\* origin that is not signed they return BadOrigin and change no state.
UnsignedOriginRejectedByThree ==
    (last.op \in EntryPoints \ {"remove_stake_limit"} /\ ~last.origin.signed) =>
        (last.result = "BadOrigin" /\ Store = pre)

(***************************************************************************)
(* Properties of the neuron slot manager.                                  *)
(***************************************************************************)
\* The per-slot arrays with the value append_neuron pushes on each; the
\* last-update array takes the block number of the call.
PushedDefaults ==
    [Rank |-> 0, Trust |-> 0, Active |-> TRUE, Emission |-> 0, Consensus |-> 0,
     Incentive |-> 0, Dividends |-> 0, LastUpdate |-> last.block,
     PruningScores |-> 0, ValidatorTrust |-> 0, ValidatorPermit |-> FALSE]

SlotArrays == DOMAIN PushedDefaults

\* C16: append_neuron(netuid, hotkey, block) takes as uid the slot count of
\* before the call, appends to each of the eleven per-slot arrays of the
\* subnet exactly one element (rank 0, trust 0, active true, emission 0,
\* consensus 0, incentive 0, dividends 0, last-update block, pruning score
\* 0, validator-trust 0, validator-permit false), and sets Keys[netuid, uid]
\* to the hotkey, Uids[netuid, hotkey] to uid, BlockAtRegistration[netuid,
\* uid] to block and the membership flag of (hotkey, netuid) to true.
C16_AppendNeuronPushesDefaults ==
    last.op = "append_neuron" =>
        LET uid == pre.SubnetworkN[last.netuid]
        IN /\ \A a \in SlotArrays :
                  Store[a][last.netuid] = Append(pre[a][last.netuid], PushedDefaults[a])
           /\ Keys[last.netuid][uid] = last.hotkey
           /\ Uids[last.netuid][last.hotkey] = uid
           /\ BlockAtRegistration[last.netuid][uid] = last.block
           /\ IsNetworkMember[<<last.hotkey, last.netuid>>]

\* append_neuron registered a second hotkey on a subnet whose first neuron
\* has its metrics set and was registered at an earlier block.
C16_Witness ==
    /\ last.op = "append_neuron"
    /\ pre.SubnetworkN[last.netuid] = 1
    /\ pre.Rank[last.netuid] = <<1>>
    /\ pre.LastUpdate[last.netuid] = <<1>>
    /\ last.block = 2
    /\ Keys[last.netuid][1] = last.hotkey
    /\ pre.Keys[last.netuid][0] # last.hotkey

\* C17 (amended): an append_neuron call made below the maximum of the slot
\* counter increases the slot count of its subnet by exactly one; a call
\* made at the maximum leaves the count at the maximum; the slot count of
\* every other subnet is as before.
C17_SlotCountIncrementSaturates ==
    last.op = "append_neuron" =>
        /\ SubnetworkN[last.netuid] =
               IF pre.SubnetworkN[last.netuid] < U16Max
               THEN pre.SubnetworkN[last.netuid] + 1
               ELSE U16Max
        /\ \A n \in SlotNetuids \ {last.netuid} :
               SubnetworkN[n] = pre.SubnetworkN[n]

\* append_neuron took a subnet's slot count from below the maximum to the
\* maximum.
C17_Witness ==
    /\ last.op = "append_neuron"
    /\ pre.SubnetworkN[last.netuid] = U16Max - 1
    /\ SubnetworkN[last.netuid] = U16Max

\* C17 (as claimed): every append_neuron call increases the slot count by
\* exactly one, whatever the slot count was.
C17_SlotCountAlwaysIncrements ==
    last.op = "append_neuron" =>
        SubnetworkN[last.netuid] = pre.SubnetworkN[last.netuid] + 1

\* C18 (amended): in every state reached by append_neuron, replace_neuron
\* and clear_neuron calls, the eleven per-slot arrays of a subnet have one
\* common length; the slot count equals that length while the length is at
\* most the maximum of the slot counter, and is the maximum when appends
\* have gone beyond it.
C18_ArraysEqualLength ==
    \A n \in SlotNetuids :
        /\ \A a \in SlotArrays : Len(Store[a][n]) = Len(Rank[n])
        /\ SubnetworkN[n] = IF Len(Rank[n]) <= U16Max THEN Len(Rank[n]) ELSE U16Max

\* A subnet that started empty was filled to the maximum slot count by
\* appends, and one of its neurons has been replaced.
C18_Witness ==
    /\ last.op = "replace_neuron"
    /\ InitialSlots.SubnetworkN[last.netuid] = 0
    /\ pre.Keys[last.netuid][last.uid] # NoKey
    /\ Keys[last.netuid][last.uid] # pre.Keys[last.netuid][last.uid]
    /\ SubnetworkN[last.netuid] = U16Max
    /\ \A a \in SlotArrays : Len(Store[a][last.netuid]) = U16Max

\* C18 (as claimed): in every reachable state all per-slot arrays of a
\* subnet have the same length and that length is the slot count.
C18_ArrayLengthIsSlotCount ==
    \A n \in SlotNetuids :
        \A a \in SlotArrays : Len(Store[a][n]) = SubnetworkN[n]

\* The uids of a subnet that have a hotkey in Keys.
OccupiedUids(s, netuid) == {u \in Uid16 : s.Keys[netuid][u] # NoKey}

\* The occupied uids of a subnet are 0 .. n-1, n its slot count.
Dense(s, netuid) == OccupiedUids(s, netuid) = 0..(s.SubnetworkN[netuid] - 1)

\* C19 (amended): as long as every append_neuron call was made below the
\* maximum slot count and every replace_neuron call on an occupied uid, the
\* uids that have a hotkey in Keys are exactly 0 .. n-1 on every subnet.  A
\* replace_neuron call on a uid without occupant gives that uid a hotkey
\* and leaves the slot count as it is, and an append_neuron call at the
\* maximum slot count gives uid = maximum a hotkey.
C19_DenseUnlessMisused ==
    /\ misuse \cap {"append_at_max", "replace_unoccupied"} = {} =>
           \A n \in SlotNetuids : Dense(Store, n)
    /\ (last.op = "replace_neuron" /\ pre.Keys[last.netuid][last.uid] = NoKey) =>
           /\ OccupiedUids(Store, last.netuid) =
                  OccupiedUids(pre, last.netuid) \cup {last.uid}
           /\ SubnetworkN = pre.SubnetworkN
    /\ (last.op = "append_neuron" /\ pre.SubnetworkN[last.netuid] = U16Max) =>
           /\ OccupiedUids(Store, last.netuid) =
                  OccupiedUids(pre, last.netuid) \cup {U16Max}
           /\ SubnetworkN = pre.SubnetworkN

\* A neuron of a subnet filled to the maximum slot count by appends was
\* replaced, and the occupied uids are still 0 .. n-1.
C19_Witness ==
    /\ last.op = "replace_neuron"
    /\ misuse = {}
    /\ SubnetworkN[last.netuid] = U16Max
    /\ pre.Keys[last.netuid][last.uid] # NoKey
    /\ Keys[last.netuid][last.uid] = last.hotkey
    /\ pre.Keys[last.netuid][last.uid] # last.hotkey
    /\ Dense(Store, last.netuid)

\* C19 (as claimed): after any append_neuron and replace_neuron calls, with
\* any uid argument, the occupied uids of every subnet are exactly 0 .. n-1.
C19_AlwaysDense ==
    \A n \in SlotNetuids : Dense(Store, n)

\* Keys and Uids of a subnet are inverse maps: the hotkey of an occupied uid
\* has that uid, and the uid of a registered hotkey holds that hotkey.
Inverse(s, netuid) ==
    /\ \A u \in Uid16 :
           s.Keys[netuid][u] # NoKey => s.Uids[netuid][s.Keys[netuid][u]] = u
    /\ \A h \in SlotHotkeys :
           s.Uids[netuid][h] # NoUid => s.Keys[netuid][s.Uids[netuid][h]] = h

\* C20 (amended): as long as no call has registered a hotkey that held
\* another uid of the subnet, no replace_neuron call was made on a uid
\* without occupant and no append_neuron call at the maximum slot count,
\* Keys and Uids are inverse maps within each subnet: no hotkey is
\* at two uids, and get_uid_for_net_and_hotkey of the hotkey that
\* get_hotkey_for_net_and_uid returns for an occupied uid is that uid.  In
\* every state each lookup returns HotKeyNotRegisteredInSubNet exactly when
\* its map has no entry, and the entry otherwise.
C20_InverseUnlessMisused ==
    /\ misuse = {} =>
           \A n \in SlotNetuids :
               /\ Inverse(Store, n)
               /\ \A u, v \in Uid16 :
                      (Keys[n][u] # NoKey /\ Keys[n][u] = Keys[n][v]) => u = v
               /\ \A u \in OccupiedUids(Store, n) :
                      get_uid_for_net_and_hotkey(
                          Store, n, get_hotkey_for_net_and_uid(Store, n, u).value)
                      = [result |-> "Ok", value |-> u]
    /\ \A n \in SlotNetuids :
           /\ \A u \in Uid16 :
                  get_hotkey_for_net_and_uid(Store, n, u) =
                      IF is_uid_exist_on_network(Store, n, u)
                      THEN [result |-> "Ok", value |-> Keys[n][u]]
                      ELSE [result |-> "HotKeyNotRegisteredInSubNet", value |-> NoKey]
           /\ \A h \in SlotHotkeys :
                  get_uid_for_net_and_hotkey(Store, n, h) =
                      IF is_hotkey_registered_on_network(Store, n, h)
                      THEN [result |-> "Ok", value |-> Uids[n][h]]
                      ELSE [result |-> "HotKeyNotRegisteredInSubNet", value |-> NoUid]

\* On a subnet with two neurons a hotkey that was not on the subnet took the
\* uid of an evicted one: the evicted hotkey has no uid, the new one has it.
C20_Witness ==
    /\ last.op = "replace_neuron"
    /\ misuse = {}
    /\ SubnetworkN[last.netuid] >= 2
    /\ pre.Keys[last.netuid][last.uid] \in AllHotkeys \ {last.hotkey}
    /\ Uids[last.netuid][pre.Keys[last.netuid][last.uid]] = NoUid
    /\ Uids[last.netuid][last.hotkey] = last.uid
    /\ get_hotkey_for_net_and_uid(Store, last.netuid, last.uid).value = last.hotkey

\* C20 (as claimed): after any append_neuron and replace_neuron calls Keys
\* and Uids are inverse maps within each subnet.
C20_AlwaysInverse ==
    \A n \in SlotNetuids : Inverse(Store, n)

\* The hotkeys on the subnet that the subnet owner owns.
OwnerHotkeysOn(s, netuid) ==
    {h \in AllHotkeys :
        /\ get_owning_coldkey_for_hotkey(h) = get_subnet_owner(netuid)
        /\ \E u \in Uid16 : s.Keys[netuid][u] = h}

\* The hotkey has the strictly highest stake weight among them.
StrictlyHighest(s, netuid, h) ==
    /\ h \in OwnerHotkeysOn(s, netuid)
    /\ \A g \in OwnerHotkeysOn(s, netuid) \ {h} :
           get_stake_weights_for_hotkey_on_subnet(s, h, netuid)
               > get_stake_weights_for_hotkey_on_subnet(s, g, netuid)

\* The hotkey holds a uid below the slot count of the subnet.
HoldsCountedUid(s, netuid, h) ==
    \E u \in Uid16 : u < s.SubnetworkN[netuid] /\ s.Keys[netuid][u] = h

\* The slot storage of every subnet as one value.
SlotStorage(s) == [m \in SlotNetuids |-> SlotsOf(s, m)]

\* The occupant of the uid that the last replace_neuron call was made on.
Occupant == pre.Keys[last.netuid][last.uid]

CountedOwnerHotkeys(s, netuid) ==
    {h \in OwnerHotkeysOn(s, netuid) : HoldsCountedUid(s, netuid, h)}

\* The lowest uid the hotkey holds on the subnet.
FirstUid(s, netuid, h) ==
    CHOOSE u \in Uid16 :
        /\ s.Keys[netuid][u] = h
        /\ \A v \in Uid16 : s.Keys[netuid][v] = h => u <= v

\* The hotkey replace_neuron protects: of the subnet owner's hotkeys below
\* the slot count, the one of highest stake weight, and of those of equal
\* weight the one at the lowest uid.
ProtectedHotkey(s, netuid, h) ==
    /\ h \in CountedOwnerHotkeys(s, netuid)
    /\ \A g \in CountedOwnerHotkeys(s, netuid) \ {h} :
           LET wh == get_stake_weights_for_hotkey_on_subnet(s, h, netuid)
               wg == get_stake_weights_for_hotkey_on_subnet(s, g, netuid)
           IN wh > wg \/ (wh = wg /\ FirstUid(s, netuid, h) < FirstUid(s, netuid, g))

\* The last call was a replace_neuron on a uid whose occupant, if it has
\* one, is not the protected hotkey.
ReplacedUnprotected ==
    /\ last.op = "replace_neuron"
    /\ ~ProtectedHotkey(pre, last.netuid, Occupant)

\* What replace_neuron installs for new_hotkey (last.hotkey) at the uid.
Installed ==
    /\ Keys[last.netuid][last.uid] = last.hotkey
    /\ Uids[last.netuid][last.hotkey] = last.uid
    /\ IsNetworkMember[<<last.hotkey, last.netuid>>]
    /\ BlockAtRegistration[last.netuid][last.uid] = last.block

\* C22: when the occupant of the uid is not the protected hotkey,
\* replace_neuron installs new_hotkey at the uid (Keys, Uids, membership
\* flag, registration block = block_number), sets the active flag of the uid
\* where the Active array has that position, removes the occupant's
\* certificate and axon info on the subnet, and, when new_hotkey is not the
\* occupant itself, removes the occupant's Uids entry and membership flag.
C22_ReplaceInstallsNewHotkey ==
    ReplacedUnprotected
        => /\ Installed
           /\ last.uid < Len(pre.Active[last.netuid])
                  => Active[last.netuid][last.uid + 1] = TRUE
           /\ Occupant # NoKey
                  => /\ Occupant \notin NeuronCertificates[last.netuid]
                     /\ Occupant \notin Axons[last.netuid]
                     /\ Occupant # last.hotkey
                            => /\ Uids[last.netuid][Occupant] = NoUid
                               /\ ~IsNetworkMember[<<Occupant, last.netuid>>]

\* An inactive occupant with a certificate and axon info is replaced by
\* another hotkey.
C22_Witness ==
    /\ ReplacedUnprotected
    /\ misuse = {}
    /\ Occupant \notin {NoKey, last.hotkey}
    /\ pre.Active[last.netuid][last.uid + 1] = FALSE
    /\ Occupant \in pre.NeuronCertificates[last.netuid]
    /\ Occupant \in pre.Axons[last.netuid]
    /\ pre.BlockAtRegistration[last.netuid][last.uid] # last.block
    /\ Installed

\* C22 as stated: the occupant's entries are gone and the uid is active
\* after every replacement of an unprotected occupant.
C22_ReplaceAlwaysRemovesOldHotkey ==
    ReplacedUnprotected
        => /\ Installed
           /\ last.uid < Len(Active[last.netuid])
           /\ Active[last.netuid][last.uid + 1] = TRUE
           /\ Occupant # NoKey
                  => /\ Occupant \notin NeuronCertificates[last.netuid]
                     /\ Occupant \notin Axons[last.netuid]
                     /\ Uids[last.netuid][Occupant] = NoUid
                     /\ ~IsNetworkMember[<<Occupant, last.netuid>>]

\* The last call was a clear_neuron on an occupied uid that the arrays
\* have a position for.
ClearedOccupied ==
    /\ last.op = "clear_neuron"
    /\ Occupant # NoKey
    /\ last.uid < Len(pre.Trust[last.netuid])

\* C23: clear_neuron(netuid, uid) sets emission, trust, consensus, incentive
\* and dividends at position uid to zero, whatever they were, and leaves
\* rank at position uid as it was.
C23_ClearNeuronZeroesMetrics ==
    ClearedOccupied
        => /\ \A f \in {"Emission", "Trust", "Consensus", "Incentive", "Dividends"} :
                  Store[f][last.netuid][last.uid + 1] = 0
           /\ Rank[last.netuid][last.uid + 1] = pre.Rank[last.netuid][last.uid + 1]

\* A neuron whose six metrics are all nonzero is cleared.
C23_Witness ==
    /\ ClearedOccupied
    /\ misuse = {}
    /\ \A f \in {"Rank", "Emission", "Trust", "Consensus", "Incentive", "Dividends"} :
           pre[f][last.netuid][last.uid + 1] # 0

\* C23 as stated: rank, trust, consensus, incentive and dividends are zero
\* after the call.
C23_ClearNeuronZeroesRank ==
    ClearedOccupied
        => \A f \in {"Rank", "Trust", "Consensus", "Incentive", "Dividends"} :
               Store[f][last.netuid][last.uid + 1] = 0

\* C24: clear_neuron(netuid, uid) leaves the active flag, last-update
\* block, pruning score and validator-permit flag at position uid
\* unchanged, changes no element at another position of any array and no
\* array length, on the subnet and on every other subnet; for a uid at or
\* beyond the array length it changes nothing.
C24_ClearNeuronFrame ==
    last.op = "clear_neuron"
        => /\ \A f \in {"Active", "LastUpdate", "PruningScores", "ValidatorPermit"} :
                  Store[f] = pre[f]
           /\ \A f \in SlotArrays, m \in SlotNetuids :
                  /\ Len(Store[f][m]) = Len(pre[f][m])
                  /\ \A i \in DOMAIN pre[f][m] :
                         (m # last.netuid \/ i # last.uid + 1)
                             => Store[f][m][i] = pre[f][m][i]
           /\ last.uid >= Len(pre.Trust[last.netuid])
                  => SlotStorage(Store) = SlotStorage(pre)

\* The second of two neurons is cleared: the first keeps nonzero metrics,
\* the second keeps its last-update block and active flag.
C24_Witness ==
    /\ last.op = "clear_neuron"
    /\ misuse = {}
    /\ last.uid = 1
    /\ Len(pre.Trust[last.netuid]) = 2
    /\ Trust[last.netuid][1] # 0
    /\ LastUpdate[last.netuid][2] # 0
    /\ Active[last.netuid][2] = TRUE

(***************************************************************************)
(* Properties of the EVM adapter.  last.evm holds the EVM amount, the call *)
(* data and the precompile result of the last adapter call.                *)
(***************************************************************************)
\* The EVM amount of the last adapter call in native units.
ConvertedAmount == last.evm.amount \div EvmToSubstrateDecimals

\* The last adapter call came to the conversion of its amount: a call of
\* the balance-transfer precompile whose method id is transfer(bytes32) (or
\* whose call data holds no method id, which fails before), or a dispatch
\* with a nonzero amount.
ReachedConversion ==
    \/ /\ last.op = "balance_transfer"
       /\ last.evm.txdata.len < 4 \/ last.evm.txdata.method = "transfer(bytes32)"
    \/ /\ last.op = "dispatch"
       /\ last.evm.amount # 0

\* C25: the conversion of the EVM amount is exact and rejecting.  When the
\* amount in native units is outside the native range,
\* BalanceTransferPrecompile::execute and transfer_back_to_caller fail and
\* dispatch no transfer; and every transfer the adapter dispatches carries
\* exactly the amount in native units, never a truncated or saturated one.
C25_ConversionExactAndRejecting ==
    ReachedConversion
        => /\ ConvertedAmount > U64Max
                  => /\ last.evm.result.failed
                     /\ last.evm.result.transfers = <<>>
           /\ \A i \in DOMAIN last.evm.result.transfers :
                  last.evm.result.transfers[i].value = ConvertedAmount

\* The balance-transfer precompile is called with the smallest amount whose
\* converted value is outside the native range.
C25_Witness ==
    /\ last.op = "balance_transfer"
    /\ last.evm.txdata = [len |-> 36, method |-> "transfer(bytes32)"]
    /\ ConvertedAmount = U64Max + 1
    /\ last.evm.amount = EvmToSubstrateDecimals * (U64Max + 1)
    /\ last.evm.result.failed
    /\ last.evm.result.exit = "OutOfFund"

\* The entry point of the last adapter call failed.
EntryPointFailed == last.result \notin {"Ok", "none"}

\* The precompile results of the calls through dispatch that, made in the
\* place of the last call, fail in the entry point with another error.
DispatchFailuresOfOtherErrors ==
    {r.evm : r \in
        {x \in {dispatch(pre, last.block, caller, call, last.evm.amount, TRUE, TRUE) :
                    caller \in Coldkeys, call \in EvmCalls} :
            x.result \notin {"Ok", "none", last.result}}}

\* The same for try_dispatch_runtime_call.
TryDispatchFailuresOfOtherErrors ==
    {r.evm : r \in
        {x \in {try_dispatch_runtime_call(pre, last.block, call, origin, "enough") :
                    origin \in Origins, call \in EvmCalls} :
            x.result \notin {"Ok", "none", last.result}}}

\* C26 (as claimed): when a staking entry point called through the adapter
\* fails, the precompile failure identifies the error: a call that fails
\* with another error yields another precompile failure, through dispatch
\* and through try_dispatch_runtime_call.
C26_AdapterSurfacesErrorKind ==
    /\ (last.op = "dispatch" /\ EntryPointFailed)
           => last.evm.result \notin DispatchFailuresOfOtherErrors
    /\ (last.op = "try_dispatch_runtime_call" /\ EntryPointFailed)
           => last.evm.result \notin TryDispatchFailuresOfOtherErrors

\* What holds of try_dispatch_runtime_call: its failure carries the text of
\* the error, so calls that fail with different errors yield different
\* failures.
TryDispatchSurfacesErrorKind ==
    (last.op = "try_dispatch_runtime_call" /\ EntryPointFailed)
        => /\ last.evm.result.failed
           /\ last.evm.result.message
                  = <<"dispatch execution failed: ", dispatch_error_text(last.result)>>
           /\ last.evm.result \notin TryDispatchFailuresOfOtherErrors

(***************************************************************************)
(* Properties of the order of steps and of the relation between the        *)
(* staking operations.                                                     *)
(***************************************************************************)
\* The hotkey's total stake as the unstake of step 3 leaves it, and as the
\* dust cleanup of step 5 leaves it.
TotalAfterUnstake == pre.ths[last.hotkey] - last.amount
TotalAfterCleanup ==
    TotalAfterUnstake - (IF ResidualIsDust THEN Residual ELSE 0)

\* The pending child-key records of the hotkey are gone on every subnet.
PendingCleared == \A n \in Netuids : PendingChildKeys[<<n, last.hotkey>>] = {}

\* C29: step order in remove_stake.  The comparison of the hotkey's total
\* stake with StakeThreshold is made after the dust cleanup, on the total
\* that the unstake and the cleanup leave: the pending child-key records
\* are cleared exactly when that total is below the threshold, so they are
\* cleared also when the unstake alone leaves the total at or above the
\* threshold and the cleanup takes it below.
C29_ThresholdTestedAfterCleanup ==
    RemoveStakeOk =>
        /\ TotalHotkeyStake[last.hotkey] = TotalAfterCleanup
        /\ IF TotalAfterCleanup < StakeThreshold
           THEN PendingCleared
           ELSE PendingChildKeys = pre.pck

\* The unstake leaves the total at the threshold, the cleanup of a nonzero
\* residual takes it below, and the pending records are cleared.
C29_Witness ==
    /\ RemoveStakeOk
    /\ Residual > 0
    /\ ResidualIsDust
    /\ TotalAfterUnstake >= StakeThreshold
    /\ TotalAfterCleanup < StakeThreshold
    /\ \E n \in Netuids : pre.pck[<<n, last.hotkey>>] # {}
    /\ PendingCleared

\* C29 as stated: the comparison is made on the total that the unstake
\* leaves, before the dust cleanup.
C29_ThresholdTestedBeforeCleanup ==
    RemoveStakeOk =>
        IF TotalAfterUnstake < StakeThreshold
        THEN PendingCleared
        ELSE PendingChildKeys = pre.pck

\* do_remove_stake called by the origin on the hotkey once for each subnet
\* from the i-th on, in the order of get_all_subnet_netuids, with the full
\* stake of the entry, on the subnets where the entry is nonzero; ok tells
\* that every call returned Ok.
RECURSIVE remove_stake_on_each_subnet(_, _, _, _, _)
remove_stake_on_each_subnet(s, blk, origin, hotkey, i) ==
    IF i > Len(get_all_subnet_netuids) THEN [s |-> s, ok |-> TRUE]
    ELSE LET netuid == get_all_subnet_netuids[i]
             stake == get_stake_for_hotkey_and_coldkey_on_subnet(
                          s, hotkey, origin.who, netuid)
             r == do_remove_stake(s, blk, origin, hotkey, netuid, stake)
             rest == remove_stake_on_each_subnet(r.s, blk, origin, hotkey, i + 1)
         IN IF stake = 0
            THEN remove_stake_on_each_subnet(s, blk, origin, hotkey, i + 1)
            ELSE [s |-> rest.s, ok |-> r.result = "Ok" /\ rest.ok]

\* The state the remove_stake calls reach from the state before the last
\* call.
RepeatedRemoveStake ==
    remove_stake_on_each_subnet(pre, last.block, last.origin, last.hotkey, 1)

\* The last call was a successful unstake_all for which the remove_stake
\* calls all pass validation.
UnstakeAllComparable ==
    /\ last.op = "unstake_all"
    /\ last.result = "Ok"
    /\ RepeatedRemoveStake.ok

\* C30 (as claimed): do_unstake_all ends in the state that do_remove_stake,
\* called once for each subnet with nonzero stake with the full stake of
\* the entry, ends in: the same stake entries, aggregates, free balances
\* and pending child-key records.
C30_UnstakeAllIsRepeatedRemoveStake ==
    UnstakeAllComparable
        => /\ Alpha = RepeatedRemoveStake.s.alpha
           /\ TotalHotkeyAlpha = RepeatedRemoveStake.s.tha
           /\ TotalHotkeyStake = RepeatedRemoveStake.s.ths
           /\ Balance = RepeatedRemoveStake.s.bal
           /\ PendingChildKeys = RepeatedRemoveStake.s.pck

\* What holds of the two: the same stake entries, aggregates, free balances
\* and fees; unstake_all leaves every pending child-key record as it was,
\* the remove_stake calls clear those of a hotkey taken below the threshold.
UnstakeAllIsRepeatedRemoveStakeButPending ==
    UnstakeAllComparable
        => /\ Alpha = RepeatedRemoveStake.s.alpha
           /\ TotalHotkeyAlpha = RepeatedRemoveStake.s.tha
           /\ TotalHotkeyStake = RepeatedRemoveStake.s.ths
           /\ Balance = RepeatedRemoveStake.s.bal
           /\ fees = RepeatedRemoveStake.s.fees
           /\ PendingChildKeys = pre.pck
           /\ \A n \in Netuids :
                  RepeatedRemoveStake.s.pck[<<n, last.hotkey>>] =
                      IF /\ TotalHotkeyStake[last.hotkey] < StakeThreshold
                         /\ Alpha # pre.alpha
                      THEN {}
                      ELSE pre.pck[<<n, last.hotkey>>]

\* The construct_runtime! invocations of the file linted last, whatever the
\* path they are invoked by, and the pallets without an index in them.
IsConstructRuntime(node) == node.path[Len(node.path)] = "construct_runtime"
Invocations ==
    {i \in DOMAIN last.lint.source : IsConstructRuntime(last.lint.source[i])}
UnindexedPallets ==
    {<<i, j>> \in Invocations \X (1..MaxPallets) :
        /\ j \in DOMAIN last.lint.source[i].tokens.pallets
        /\ last.lint.source[i].tokens.pallets[j].index = NoIndex}

\* A file was linted whose construct_runtime! invocations all parse.
LintedParsed ==
    /\ last.op = "lint"
    /\ \A i \in Invocations : last.lint.source[i].tokens.kind # "Err"

\* C28 (as claimed): the lint rejects whenever a pallet of a
\* construct_runtime! invocation has no explicit index, with one error for
\* each such pallet, and accepts when every pallet has one.
C28_LintRejectsUnindexedPallets ==
    LintedParsed
        => /\ last.lint.result.ok <=> UnindexedPallets = {}
           /\ Len(last.lint.result.errors) = Cardinality(UnindexedPallets)

\* What holds: the claim, of files whose invocations are made by the bare
\* path construct_runtime and parse as explicit declarations.
LintRejectsUnindexedPalletsOfExplicit ==
    (/\ LintedParsed
     /\ \A i \in Invocations :
            /\ is_ident(last.lint.source[i].path, "construct_runtime")
            /\ last.lint.source[i].tokens.kind = "Explicit")
        => /\ last.lint.result.ok <=> UnindexedPallets = {}
           /\ Len(last.lint.result.errors) = Cardinality(UnindexedPallets)

\* The last step was the emission step of the block now current.
Stepped == last.op = "block_step"

\* Sum of a function over the hotkeys.
OverHotkeys(f) == SumOver(f, Hotkeys)

DrainedOf(h) == pre.PendingHotkeyEmission[h] + last.coinbase[h]

TiedTopHotkeys(s, netuid) ==
    {h \in CountedOwnerHotkeys(s, netuid) :
        \A g \in CountedOwnerHotkeys(s, netuid) :
            get_stake_weights_for_hotkey_on_subnet(s, h, netuid)
                >= get_stake_weights_for_hotkey_on_subnet(s, g, netuid)}

\* The last call was a replace_neuron on one of several hotkeys of the
\* subnet owner that tie for the highest stake weight.
ReplacedTied ==
    /\ last.op = "replace_neuron"
    /\ Cardinality(TiedTopHotkeys(pre, last.netuid)) >= 2
    /\ Occupant \in TiedTopHotkeys(pre, last.netuid)

\* C31: when several hotkeys of the subnet owner tie for the highest stake
\* weight, replace_neuron protects the one at the lowest uid (the call
\* changes nothing) and evicts each of the others (new_hotkey is installed
\* at the uid).
C31_TieKeepsLowestUid ==
    ReplacedTied
        => IF \A g \in TiedTopHotkeys(pre, last.netuid) :
                  FirstUid(pre, last.netuid, Occupant)
                      <= FirstUid(pre, last.netuid, g)
           THEN SlotStorage(Store) = SlotStorage(pre)
           ELSE /\ Keys[last.netuid][last.uid] = last.hotkey
                /\ Uids[last.netuid][last.hotkey] = last.uid
                /\ Occupant # last.hotkey => Uids[last.netuid][Occupant] = NoUid

\* Two hotkeys of the owner tie; the one at the higher uid is evicted by a
\* hotkey that held no slot.
C31_Witness ==
    /\ ReplacedTied
    /\ misuse = {}
    /\ last.uid > 0
    /\ pre.Keys[last.netuid][0] \in TiedTopHotkeys(pre, last.netuid) \ {Occupant}
    /\ pre.Uids[last.netuid][last.hotkey] = NoUid
    /\ Keys[last.netuid][last.uid] = last.hotkey
    /\ Uids[last.netuid][Occupant] = NoUid

\* What the scan of replace_neuron selects on the subnet before the call:
\* NoKey when the subnet owner has no hotkey below the slot count.
SelectedTop ==
    top_stake_scan(pre, last.netuid, 0,
        [top_stake_sn_owner_hotkey |-> NoKey,
         max_stake_weight |-> 0 - 1]).top_stake_sn_owner_hotkey

\* The replacement of the last call was carried out: new_hotkey holds the
\* uid, registered at the block of the call, and the occupant, if it is
\* another hotkey, has lost its uid entry and its membership flag.
CarriedOut ==
    /\ Keys[last.netuid][last.uid] = last.hotkey
    /\ Uids[last.netuid][last.hotkey] = last.uid
    /\ BlockAtRegistration[last.netuid][last.uid] = last.block
    /\ IsNetworkMember[<<last.hotkey, last.netuid>>]
    /\ Occupant \notin {NoKey, last.hotkey}
           => /\ Uids[last.netuid][Occupant] = NoUid
              /\ ~IsNetworkMember[<<Occupant, last.netuid>>]

\* The occupant is a hotkey of another coldkey than the subnet owner.
OccupantOfAnotherColdkey ==
    /\ Occupant # NoKey
    /\ get_owning_coldkey_for_hotkey(Occupant) # get_subnet_owner(last.netuid)

\* The occupant is a hotkey of the subnet owner of lower stake weight than
\* another of the owner's hotkeys below the slot count.
OccupantOfLowerStake ==
    /\ Occupant \in OwnerHotkeysOn(pre, last.netuid)
    /\ \E g \in CountedOwnerHotkeys(pre, last.netuid) :
           get_stake_weights_for_hotkey_on_subnet(pre, g, last.netuid)
               > get_stake_weights_for_hotkey_on_subnet(pre, Occupant, last.netuid)

\* C32: owner protection is exact.  replace_neuron changes nothing when
\* the occupant of the uid is the hotkey its scan selects, and carries the
\* replacement out for every other occupant: a hotkey of another coldkey, a
\* hotkey of the owner of lower stake weight, and any occupant when the
\* scan selects none.
C32_ProtectionIsExact ==
    last.op = "replace_neuron"
        => /\ (Occupant # NoKey /\ Occupant = SelectedTop)
                  => SlotStorage(Store) = SlotStorage(pre)
           /\ Occupant # SelectedTop => CarriedOut
           /\ (OccupantOfAnotherColdkey \/ OccupantOfLowerStake \/ SelectedTop = NoKey)
                  => CarriedOut

\* A hotkey of the owner of lower stake weight is evicted while the owner's
\* top hotkey holds another uid of the subnet.
C32_Witness ==
    /\ last.op = "replace_neuron"
    /\ misuse = {}
    /\ OccupantOfLowerStake
    /\ SelectedTop \notin {NoKey, Occupant, last.hotkey}
    /\ CarriedOut
    /\ Uids[last.netuid][SelectedTop] = pre.Uids[last.netuid][SelectedTop]

\* The hotkeys that occupied, before the last call, a uid of the subnet of
\* the call other than the uid of the call.
OtherOccupants ==
    {pre.Keys[last.netuid][u] : u \in Uid16 \ {last.uid}} \ {NoKey}

\* What replace_neuron leaves alone whatever it is called with: the slot
\* count and the length of every array, every array element at another
\* position, the Keys entry and registration block of every other uid, the
\* whole of every other subnet, and last-update block, pruning score,
\* validator trust and validator permit at every position.
ReplaceFrame ==
    /\ SubnetworkN = pre.SubnetworkN
    /\ \A f \in SlotArrays, m \in SlotNetuids :
           /\ Len(Store[f][m]) = Len(pre[f][m])
           /\ \A i \in DOMAIN pre[f][m] :
                  (m # last.netuid \/ i # last.uid + 1)
                      => Store[f][m][i] = pre[f][m][i]
    /\ \A u \in Uid16 \ {last.uid} :
           /\ Keys[last.netuid][u] = pre.Keys[last.netuid][u]
           /\ BlockAtRegistration[last.netuid][u]
                  = pre.BlockAtRegistration[last.netuid][u]
    /\ \A m \in SlotNetuids \ {last.netuid} : SlotsOf(Store, m) = SlotsOf(pre, m)
    /\ \A f \in {"LastUpdate", "PruningScores", "ValidatorTrust", "ValidatorPermit"} :
           Store[f] = pre[f]

\* The hotkeys at the other uids keep their uid entry and membership flag.
OtherOccupantsKept ==
    \A g \in OtherOccupants :
        /\ Uids[last.netuid][g] = pre.Uids[last.netuid][g]
        /\ IsNetworkMember[<<g, last.netuid>>]
               = pre.IsNetworkMember[<<g, last.netuid>>]

SubnetsHeld(h) == {n \in SlotNetuids : \E u \in Uid16 : Keys[n][u] = h}

\* Membership follows occupancy, and the two lookups follow membership.
MembershipConsistent ==
    \A h \in SlotHotkeys :
        /\ \A n \in SlotNetuids : IsNetworkMember[<<h, n>>] <=> n \in SubnetsHeld(h)
        /\ get_registered_networks_for_hotkey(Store, h) = SubnetsHeld(h)
        /\ is_hotkey_registered_on_any_network(Store, h) <=> SubnetsHeld(h) # {}

\* C34: after any sequence of append_neuron and replace_neuron calls in
\* which no call registers a hotkey that holds another uid of the subnet,
\* replaces on an unoccupied uid or appends at the maximum slot count, the
\* membership flag of (hotkey, netuid) is true exactly when the hotkey
\* occupies a uid of the subnet, get_registered_networks_for_hotkey returns
\* exactly the subnets where the hotkey holds a uid, and
\* is_hotkey_registered_on_any_network is true exactly when there is one.
C34_MembershipUnlessMisused == misuse = {} => MembershipConsistent

\* A hotkey was evicted from the only subnet it was on by a hotkey that is
\* now on two subnets.
C34_Witness ==
    /\ last.op = "replace_neuron"
    /\ misuse = {}
    /\ Occupant \notin {NoKey, last.hotkey}
    /\ pre.IsNetworkMember[<<Occupant, last.netuid>>]
    /\ ~is_hotkey_registered_on_any_network(Store, Occupant)
    /\ get_registered_networks_for_hotkey(Store, last.hotkey) = SlotNetuids

\* C34 as stated: membership is consistent after any sequence of calls.
C34_MembershipAlways == MembershipConsistent

\* C35: the running total of unstake_all_alpha never wraps.  It is the sum
\* of the TAO of the per-subnet unstakes while that sum is at most U64Max
\* and U64Max once the sum exceeds it, and that total is the amount of the
\* one stake_into_subnet call on root.
C35_RunningTotalSaturates ==
    (last.op = "unstake_all_alpha" /\ last.result = "Ok") =>
        /\ last.tao = IF TotalTaoUnstaked <= U64Max THEN TotalTaoUnstaked
                      ELSE U64Max
        /\ last.stake_ins =
               <<StakeIn(last.hotkey, who, get_root_netuid, last.tao, 0)>>
        /\ Alpha[<<last.hotkey, who, get_root_netuid>>] =
               pre.alpha[<<last.hotkey, who, get_root_netuid>>]
                   + last.tao \div AlphaPrice(get_root_netuid)

\* The unstakes of a call returned TAO amounts that each fit in 64 bits
\* and whose sum does not: the total is the 64-bit maximum.
C35_Witness ==
    /\ last.op = "unstake_all_alpha"
    /\ last.result = "Ok"
    /\ \A n \in Netuids : UnstakedTao(n) <= U64Max
    /\ TotalTaoUnstaked > U64Max
    /\ last.tao = U64Max
    /\ last.stake_ins[1].tao = U64Max

(***************************************************************************)
(* Properties of the precompile sets.  last.precompile holds the set, the  *)
(* code address, the flags that were on, the answer of is_precompile and   *)
(* the result of execute.                                                  *)
(***************************************************************************)
\* C36: in both precompile sets, is_precompile answers true exactly for
\* the addresses for which execute returns Some: every address of
\* used_addresses has an arm, and execute returns None for every other
\* address.
C36_IsPrecompileIffExecuteSome ==
    last.op = "precompile"
        => /\ last.precompile.is_precompile <=> last.precompile.execute.some
           /\ ~last.precompile.is_precompile
                  => last.precompile.execute = ExecuteNone

\* Both sets have answered for an address they use and for one they do
\* not: here Precompiles executes the second staking precompile, which
\* FrontierPrecompiles does not have.
C36_Witness ==
    /\ last.op = "precompile"
    /\ last.precompile.set = "Precompiles"
    /\ last.precompile.address = hash(last.precompile.index["StakingV2"])
    /\ last.precompile.is_precompile
    /\ last.precompile.execute.ran = "StakingV2"
    /\ ~FrontierPrecompiles_is_precompile(last.precompile.index,
                                          last.precompile.address)

\* The subtensor precompiles whose address is the code address of the last
\* call, and the flag of each.
SubtensorPrecompiles ==
    {"BalanceTransfer", "Staking", "StakingV2", "Subnet", "Metagraph", "Neuron"}
EnableFlag(p) == IF p = "StakingV2" THEN "Staking" ELSE p
Addressed ==
    {p \in IndexedPrecompiles :
        last.precompile.address = hash(last.precompile.index[p])}

\* C37: in Precompiles::execute, a call to the address of a subtensor
\* precompile whose enable flag is off returns Some(Err) with a "disabled"
\* error and runs no precompile, so that the storage stays; the standard
\* precompiles and Ed25519Verify are executed whatever the flags.
C37_DisabledPrecompileDoesNotRun ==
    (last.op = "precompile" /\ last.precompile.set = "Precompiles")
        => /\ \A p \in Addressed \cap SubtensorPrecompiles :
                  EnableFlag(p) \notin last.precompile.enabled
                      => /\ last.precompile.execute.some
                         /\ last.precompile.execute.ran = "none"
                         /\ last.precompile.execute.result.failed
                         /\ last.precompile.execute.result.exit = "Other"
                         /\ last.precompile.execute.result.message \in
                                {<<"Precompile Balance Transfer is disabled">>,
                                 <<"Precompile Staking is disabled">>,
                                 <<"Precompile Subnet is disabled">>,
                                 <<"Precompile Metagrah is disabled">>,
                                 <<"Precompile Neuron is disabled">>}
                         /\ Store = pre
           /\ (\/ last.precompile.address \in
                      {hash(a) : a \in {1, 2, 3, 4, 5, 1024, 1025}}
               \/ "Ed25519Verify" \in Addressed)
                  => /\ last.precompile.execute.some
                     /\ last.precompile.execute.ran \in
                            {"ECRecover", "Sha256", "Ripemd160", "Identity",
                             "Modexp", "Sha3FIPS256", "ECRecoverPublicKey",
                             "Ed25519Verify"}

\* The second staking precompile is called while the staking flag is off
\* and every other flag is on.
C37_Witness ==
    /\ last.op = "precompile"
    /\ last.precompile.set = "Precompiles"
    /\ "StakingV2" \in Addressed
    /\ last.precompile.enabled = PrecompileEnum \ {"Staking"}
    /\ last.precompile.execute.ran = "none"
    /\ last.precompile.execute.result.message
           = <<"Precompile Staking is disabled">>

(***************************************************************************)
(* Properties of the balance-transfer precompile.                          *)
(***************************************************************************)
\* The input of the last call starts with the selector of transfer(bytes32);
\* it holds the 32 bytes of a destination after it.
HasTransferSelector ==
    last.evm.txdata.len >= 4 /\ last.evm.txdata.method = "transfer(bytes32)"
HasDestination == last.evm.txdata.len >= 36

\* The transfer the precompile dispatches.
TransferToDestination ==
    [value |-> ConvertedAmount, source |-> "CONTRACT_ADDRESS_SS58",
     dest |-> "txdata[4..36]"]

\* What the precompile does on an input that has a selector, but for the
\* case of the selector of transfer(bytes32) with a non-zero amount.
SelectorAndZeroCases ==
    /\ last.evm.result.transfers # <<>>
           => HasTransferSelector /\ ConvertedAmount # 0
    /\ (~HasTransferSelector \/ ConvertedAmount = 0)
           => /\ ~last.evm.result.failed
              /\ last.evm.result.exit = "Returned"
              /\ last.evm.result.transfers = <<>>
    /\ (HasTransferSelector /\ ConvertedAmount > U64Max)
           => /\ last.evm.result.failed
              /\ last.evm.result.exit = "OutOfFund"
              /\ last.evm.result.transfers = <<>>

\* The transfer is dispatched and the call succeeds, or fails with
\* OutOfFund.
TransfersOrOutOfFund ==
    /\ last.evm.result.transfers = <<TransferToDestination>>
    /\ \/ ~last.evm.result.failed /\ last.evm.result.exit = "Returned"
       \/ last.evm.result.failed /\ last.evm.result.exit = "OutOfFund"

\* C38 (as claimed): BalanceTransferPrecompile::execute dispatches a
\* transfer only when the input starts with the selector of
\* transfer(bytes32) and the converted amount is non-zero; with another
\* selector or a zero amount it succeeds with no transfer; otherwise it
\* transfers the converted amount from the contract account to the
\* destination of input bytes 4..36, and fails with OutOfFund when the
\* conversion or the transfer fails.
C38_BalanceTransferAsClaimed ==
    (last.op = "balance_transfer" /\ last.evm.txdata.len >= 4)
        => /\ SelectorAndZeroCases
           /\ (HasTransferSelector /\ ConvertedAmount \in 1..U64Max)
                  => TransfersOrOutOfFund

\* C38: the same where the input holds the 32 bytes of the destination;
\* where it does not (and where it holds no selector), the call fails with
\* InvalidRange and dispatches no transfer.
C38_BalanceTransfer ==
    last.op = "balance_transfer"
        => IF last.evm.txdata.len < 4
           THEN /\ last.evm.result.failed
                /\ last.evm.result.exit = "InvalidRange"
                /\ last.evm.result.transfers = <<>>
           ELSE /\ SelectorAndZeroCases
                /\ (HasTransferSelector /\ ConvertedAmount \in 1..U64Max)
                       => IF HasDestination
                          THEN TransfersOrOutOfFund
                          ELSE /\ last.evm.result.failed
                               /\ last.evm.result.exit = "InvalidRange"
                               /\ last.evm.result.transfers = <<>>

\* The precompile is called with the selector of transfer(bytes32), a
\* destination and the largest amount of the native range, and the
\* transfer it dispatches fails.
C38_Witness ==
    /\ last.op = "balance_transfer"
    /\ HasTransferSelector /\ HasDestination
    /\ ConvertedAmount = U64Max
    /\ last.evm.result.transfers = <<TransferToDestination>>
    /\ last.evm.result.failed
    /\ last.evm.result.exit = "OutOfFund"

(***************************************************************************)
(* Properties of the order of the steps of dispatch.  last.result is       *)
(* "none" when the staking call was never dispatched.                      *)
(***************************************************************************)
\* The transfer of the attached value back to the caller.
TransferBack == [value |-> ConvertedAmount]

\* The transfer back to the caller failed: dispatch returned one of the
\* failures of transfer_back_to_caller.
TransferBackFailed ==
    /\ last.evm.result.failed
    /\ \/ last.evm.result.exit = "OutOfFund"
       \/ last.evm.result.message \in
              {<<"Invalid SS58 address">>, <<"Transfer back to caller failed">>}

\* C39: in the adapter's dispatch, a non-zero attached value is transferred
\* back to the caller before the staking call is dispatched.  If that
\* transfer fails, the staking call is never dispatched and the storage
\* stays; if the staking call is dispatched, the transfer has been made, and
\* if the staking call then fails, dispatch returns the error "Subtensor
\* call failed" while the transfer stays made.  With no attached value no
\* transfer is made.
C39_TransferBackBeforeCall ==
    last.op = "dispatch"
        => /\ last.evm.amount = 0
                  => last.evm.result.transfers = <<>> /\ last.result # "none"
           /\ TransferBackFailed => last.result = "none" /\ Store = pre
           /\ (last.evm.amount # 0 /\ last.result # "none")
                  => last.evm.result.transfers = <<TransferBack>>
           /\ EntryPointFailed
                  => /\ last.evm.result.failed
                     /\ last.evm.result.exit = "Other"
                     /\ last.evm.result.message = <<"Subtensor call failed">>
           /\ last.result = "Ok" => ~last.evm.result.failed

\* A staking call dispatched with a non-zero attached value fails after the
\* value has been transferred back.
C39_Witness ==
    /\ last.op = "dispatch"
    /\ last.evm.amount # 0
    /\ ConvertedAmount # 0
    /\ EntryPointFailed
    /\ last.evm.result.failed
    /\ last.evm.result.transfers = <<TransferBack>>

\* The transfer back fails and the staking call is not dispatched.
TransferBackFailedReached ==
    /\ last.op = "dispatch"
    /\ last.evm.result.message = <<"Transfer back to caller failed">>
    /\ last.result = "none"

====
